---------------------------- MODULE Spec2Model ----------------------------
(***************************************************************************)
(* A model of PROJECT-GOLFERO's game core (Windows_version/                *)
(* main_with_menu.c): terrain classification, wind, ball launch and ball   *)
(* simulation, the frame loop with its manual / AI-demo / versus modes,    *)
(* and the AI pipe connection thread.                                      *)
(*                                                                         *)
(* Numbers.  The program computes in 32-bit floats.  The model computes in *)
(* fixed point: lengths, velocities, spins, powers and wind strengths are  *)
(* integers in hundredths (1.0f is 100); the ball's height z is in         *)
(* hundred-thousandths (1.0f is 100000), the unit of a velocity times a    *)
(* time, so that the sign of z, which decides whether a tick enters the    *)
(* landing check, is never lost to rounding; dimensionless factors         *)
(* (damping, bounce, launch, unit-vector components, sines) are in         *)
(* thousandths (1.0f is 1000); angles are in tenths of a degree; times are *)
(* in milliseconds.  A product is divided back with truncation toward      *)
(* zero.  Every comparison, branch and assignment is the source's.         *)
(***************************************************************************)
EXTENDS Integers, Sequences, FiniteSets, TLC

(***************************************************************************)
(* Arithmetic helpers.                                                     *)
(***************************************************************************)
Abs(a) == IF a < 0 THEN -a ELSE a

\* C's float-to-smaller-unit division, truncating toward zero.
Div(a, b) == IF a >= 0 THEN a \div b ELSE -((-a) \div b)

\* a * (k / 1000): multiplication by a dimensionless factor in thousandths.
Scale(a, k) == Div(a * k, 1000)

\* Newton's iteration for the square root of n from the estimate r.
SqrtIter[n \in Nat, r \in Nat] ==
    LET r2 == (r + n \div r) \div 2
    IN  IF r2 >= r THEN r ELSE SqrtIter[n, r2]

\* floor(sqrt(n)).
ISqrt(n) == IF n <= 0 THEN 0 ELSE IF n < 4 THEN 1 ELSE SqrtIter[n, n \div 2]

\* sqrtf(a*a + b*b).  Operands beyond 20000 are squared at a tenth of the
\* resolution (a float keeps relative, not absolute, precision).
Hypot(a, b) ==
    IF Abs(a) > 20000 \/ Abs(b) > 20000
    THEN 10 * ISqrt(Div(a, 10) * Div(a, 10) + Div(b, 10) * Div(b, 10))
    ELSE ISqrt(a * a + b * b)

\* sinf of an angle in tenths of a degree, in thousandths (Bhaskara's
\* rational approximation on [0, 180] degrees, extended by symmetry).
SinPos(a) ==
    LET p == Div(a * (1800 - a), 100)
    IN  Div(4000 * p, 40500 - p)

SinT(a) ==
    LET m == a % 3600
    IN  IF m <= 1800 THEN SinPos(m) ELSE -SinPos(m - 1800)

CosT(a) == SinT(a + 900)

(***************************************************************************)
(* Program constants (main_with_menu.c lines 16-34).                       *)
(***************************************************************************)
GRAVITY_ACCEL == 80000
DT == 16
MAP_SIZE == 32
TILE_SIZE == 20
LAUNCH_SCALE == 4
Z_SCALE == 600
AIR_DRAG_COEF == 1600
MAX_DRAG_DISTANCE == 15000
STOP_SPEED == 200
MAX_WIND_STRENGTH == 5000
WIND_SMOOTHNESS == 250
GROUND_WIND_FACTOR == 80
MAGNUS_COEF == 12
MAGNUS_MAX == 1000
SPIN_AIR_DAMP == 996
SPIN_GROUND_DAMP == 985
LOW_SPEED_KILL == 450
SCREEN_WIDTH == MAP_SIZE * TILE_SIZE * 100
SCREEN_HEIGHT == MAP_SIZE * TILE_SIZE * 100

clampInt(v, a, b) == IF v < a THEN a ELSE IF v > b THEN b ELSE v

clampf(v, a, b) == IF v < a THEN a ELSE IF v > b THEN b ELSE v

(***************************************************************************)
(* Terrain.                                                                *)
(***************************************************************************)
TerrainDefault ==
    [rollDamping |-> 960, bounceFactor |-> 600, launchFactor |-> 1000,
     isHazard |-> FALSE, isSolid |-> FALSE, isSand |-> FALSE]

IsHoleColor(c) == c.r < 30 /\ c.g < 30 /\ c.b < 30

IsStartColor(c) == c.r > 150 /\ c.r > c.g + 40 /\ c.r > c.b + 40

\* A classification that tests the solid rule before the two marker rules.
getTerrainPropsSolidFirst(c) ==
    LET R == c.r
        G == c.g
        B == c.b
        p == TerrainDefault
    IN  IF (R < 70 /\ G < 80 /\ B < 70) /\ (G <= R + 20)
             THEN [p EXCEPT !.rollDamping = 400, !.bounceFactor = 0,
                            !.launchFactor = 400, !.isSolid = TRUE]
        ELSE IF R < 30 /\ G < 30 /\ B < 30 THEN p
        ELSE IF R > 150 /\ R > G + 40 /\ R > B + 40 THEN p
        ELSE IF B > 120 /\ B > G + 20 /\ B > R + 20
             THEN [p EXCEPT !.rollDamping = 920, !.bounceFactor = 0,
                            !.launchFactor = 0, !.isHazard = TRUE]
        ELSE IF R > 130 /\ G > 130 /\ B < 100 /\ Abs(R - G) < 30
                /\ (R + G) > 260 /\ G < 200
             THEN [p EXCEPT !.rollDamping = 450, !.bounceFactor = 50,
                            !.launchFactor = 350, !.isSand = TRUE]
        ELSE IF G > 200 /\ R > 80 /\ B < 150 /\ G > R /\ G > B
             THEN [p EXCEPT !.rollDamping = 980, !.bounceFactor = 750,
                            !.launchFactor = 1050]
        ELSE IF G >= 85 /\ G <= 170 /\ G > R + 8 /\ G > B + 8
                /\ R <= 120 /\ B <= 120
             THEN [p EXCEPT !.rollDamping = 800, !.bounceFactor = 550,
                            !.launchFactor = 850]
        ELSE p

getTerrainProps(c) ==
    LET R == c.r
        G == c.g
        B == c.b
        p == TerrainDefault
    IN  IF R < 30 /\ G < 30 /\ B < 30 THEN p
        ELSE IF R > 150 /\ R > G + 40 /\ R > B + 40 THEN p
        ELSE IF B > 120 /\ B > G + 20 /\ B > R + 20
             THEN [p EXCEPT !.rollDamping = 920, !.bounceFactor = 0,
                            !.launchFactor = 0, !.isHazard = TRUE]
        ELSE IF (R < 70 /\ G < 80 /\ B < 70) /\ (G <= R + 20)
             THEN [p EXCEPT !.rollDamping = 400, !.bounceFactor = 0,
                            !.launchFactor = 400, !.isSolid = TRUE]
        ELSE IF R > 130 /\ G > 130 /\ B < 100 /\ Abs(R - G) < 30
                /\ (R + G) > 260 /\ G < 200
             THEN [p EXCEPT !.rollDamping = 450, !.bounceFactor = 50,
                            !.launchFactor = 350, !.isSand = TRUE]
        ELSE IF G > 200 /\ R > 80 /\ B < 150 /\ G > R /\ G > B
             THEN [p EXCEPT !.rollDamping = 980, !.bounceFactor = 750,
                            !.launchFactor = 1050]
        ELSE IF G >= 85 /\ G <= 170 /\ G > R + 8 /\ G > B + 8
                /\ R <= 120 /\ B <= 120
             THEN [p EXCEPT !.rollDamping = 800, !.bounceFactor = 550,
                            !.launchFactor = 850]
        ELSE p


\* A course image: its size, the colour of each listed cell, and the colour of
\* every other cell.  (golf_map.png is an asset; the model's images are the
\* ones named in Maps.)
ColHole == [r |-> 0, g |-> 0, b |-> 0]
ColStart == [r |-> 230, g |-> 41, b |-> 55]
ColWater == [r |-> 0, g |-> 121, b |-> 241]
ColSand == [r |-> 200, g |-> 180, b |-> 50]
ColSolid == [r |-> 50, g |-> 50, b |-> 50]
ColFairway == [r |-> 100, g |-> 200, b |-> 100]
ColRough == [r |-> 80, g |-> 140, b |-> 60]

GetImageColor(map, px, py) ==
    IF <<px, py>> \in DOMAIN map.cells THEN map.cells[<<px, py>>] ELSE map.base

getTerrainAt(map, x, y) ==
    LET imgW == map.width
        imgH == map.height
        xc == clampf(x, 0, SCREEN_WIDTH - 100)
        yc == clampf(y, 0, SCREEN_HEIGHT - 100)
        px == clampInt(Div(xc * imgW, SCREEN_WIDTH), 0, imgW - 1)
        py == clampInt(Div(yc * imgH, SCREEN_HEIGHT), 0, imgH - 1)
    IN  getTerrainProps(GetImageColor(map, px, py))

\* The colour test of the scan for the hole or for the start marker.
IsMarker(kind, c) == IF kind = "hole" THEN IsHoleColor(c) ELSE IsStartColor(c)

\* The first cell, in row-major order, whose colour passes the test of the
\* scan; <<-1, -1>> if none.
FirstCell(map, kind) ==
    LET hits == {c \in DOMAIN map.cells : IsMarker(kind, map.cells[c])}
        baseHit == IsMarker(kind, map.base)
        all == IF baseHit
               THEN {<<x, y>> : x \in 0..(map.width - 1), y \in 0..(map.height - 1)}
                    \ {c \in DOMAIN map.cells : ~IsMarker(kind, map.cells[c])}
               ELSE {c \in hits : c[1] < map.width /\ c[2] < map.height}
    IN  IF all = {} THEN <<-1, -1>>
        ELSE CHOOSE c \in all :
                \A d \in all : c[2] < d[2] \/ (c[2] = d[2] /\ c[1] <= d[1])

CellCentre(c) ==
    [x |-> c[1] * TILE_SIZE * 100 + Div(TILE_SIZE * 100, 2),
     y |-> c[2] * TILE_SIZE * 100 + Div(TILE_SIZE * 100, 2)]

findHolePosition(map) ==
    LET c == FirstCell(map, "hole")
    IN  IF c = <<-1, -1>> THEN [x |-> -100, y |-> -100] ELSE CellCentre(c)

findStartPosition(map) ==
    LET c == FirstCell(map, "start")
    IN  IF c = <<-1, -1>>
        THEN [x |-> Div(SCREEN_WIDTH, 2), y |-> Div(SCREEN_HEIGHT, 2)]
        ELSE CellCentre(c)

(***************************************************************************)
(* Wind.  r1, r2, r3 are the three rand() / RAND_MAX draws, in thousandths. *)
(***************************************************************************)
\* An update whose new target is drawn from twice the range.
updateWindDouble(w, r1, r2, r3) ==
    LET t1 == w.timer - DT
        fire == t1 <= 0
        angle == Div(r1 * 3600, 1000)
        w1 == IF fire
              THEN [w EXCEPT !.dirX = CosT(angle), !.dirY = SinT(angle),
                             !.targetStrength = Scale(2 * MAX_WIND_STRENGTH, r2),
                             !.timer = 3000 + Scale(3000, r3)]
              ELSE [w EXCEPT !.timer = t1]
    IN  [w1 EXCEPT !.appliedStrength =
            w1.appliedStrength
              + Scale(w1.targetStrength - w1.appliedStrength, WIND_SMOOTHNESS)]

\* An update that steps past the target (smoothing fraction above one).
updateWindOvershoot(w, r1, r2, r3) ==
    LET t1 == w.timer - DT
        fire == t1 <= 0
        angle == Div(r1 * 3600, 1000)
        w1 == IF fire
              THEN [w EXCEPT !.dirX = CosT(angle), !.dirY = SinT(angle),
                             !.targetStrength = Scale(MAX_WIND_STRENGTH, r2),
                             !.timer = 3000 + Scale(3000, r3)]
              ELSE [w EXCEPT !.timer = t1]
    IN  [w1 EXCEPT !.appliedStrength =
            w1.appliedStrength
              + Scale(w1.targetStrength - w1.appliedStrength, 1000 + WIND_SMOOTHNESS)]

\* An update whose new timer is drawn from [1, 4] seconds.
updateWindShortTimer(w, r1, r2, r3) ==
    LET t1 == w.timer - DT
        fire == t1 <= 0
        angle == Div(r1 * 3600, 1000)
        w1 == IF fire
              THEN [w EXCEPT !.dirX = CosT(angle), !.dirY = SinT(angle),
                             !.targetStrength = Scale(MAX_WIND_STRENGTH, r2),
                             !.timer = 1000 + Scale(3000, r3)]
              ELSE [w EXCEPT !.timer = t1]
    IN  [w1 EXCEPT !.appliedStrength =
            w1.appliedStrength
              + Scale(w1.targetStrength - w1.appliedStrength, WIND_SMOOTHNESS)]

\* updateWind, lines 152-162.
updateWind(w, r1, r2, r3) ==
    LET t1 == w.timer - DT
        fire == t1 <= 0
        angle == Div(r1 * 3600, 1000)
        w1 == IF fire
              THEN [w EXCEPT !.dirX = CosT(angle), !.dirY = SinT(angle),
                             !.targetStrength = Scale(MAX_WIND_STRENGTH, r2),
                             !.timer = 3000 + Scale(3000, r3)]
              ELSE [w EXCEPT !.timer = t1]
    IN  [w1 EXCEPT !.appliedStrength =
            w1.appliedStrength
              + Scale(w1.targetStrength - w1.appliedStrength, WIND_SMOOTHNESS)]

WindInit ==
    [dirX |-> 1000, dirY |-> 0, targetStrength |-> 0, appliedStrength |-> 0,
     timer |-> 4000]

(***************************************************************************)
(* Ball.                                                                   *)
(***************************************************************************)
initBall(startPos) ==
    [x |-> startPos.x, y |-> startPos.y, z |-> 0,
     vx |-> 0, vy |-> 0, vz |-> 0,
     spinX |-> 0, spinY |-> 0, spinZ |-> 0,
     inAir |-> FALSE, isMoving |-> FALSE,
     lastX |-> startPos.x, lastY |-> startPos.y,
     angle |-> 450, userSetSpin |-> FALSE]

\* A launch that leaves the explicit-spin flag as it was (line 232 left out).
shootBallKeepsFlag(ball, map, dirx0, diry0, power, angleDeg) ==
    LET len0 == Hypot(dirx0, diry0)
        degenerate == len0 < 1
        dirx == IF degenerate THEN 0 ELSE Div(dirx0 * 1000, len0)
        diry == IF degenerate THEN -1000 ELSE Div(diry0 * 1000, len0)
        terrain == getTerrainAt(map, ball.x, ball.y)
        base0 == Scale(power * LAUNCH_SCALE, terrain.launchFactor)
        baseLaunch == IF terrain.isSand THEN Scale(base0, 450) ELSE base0
        horizontalSpeed == Scale(baseLaunch, CosT(angleDeg))
        vz == Scale(Scale(baseLaunch, SinT(angleDeg)), Z_SCALE)
        spinY0 == IF ~ball.userSetSpin
                  THEN Scale(baseLaunch, 20)
                  ELSE ball.spinY + Scale(baseLaunch, 5)
        spinX0 == IF ~ball.userSetSpin
                  THEN Div(Scale(-dirx, baseLaunch) * 10, 1000)
                  ELSE ball.spinX + Div(Scale(-dirx, baseLaunch) * 25, 10000)
    IN  [ball EXCEPT
            !.vx = Scale(horizontalSpeed, dirx),
            !.vy = Scale(horizontalSpeed, diry),
            !.vz = vz,
            !.spinX = clampf(spinX0, -Scale(baseLaunch, 80), Scale(baseLaunch, 80)),
            !.spinY = clampf(spinY0, -Scale(baseLaunch, 250), Scale(baseLaunch, 250)),
            !.inAir = (vz > 100),
            !.isMoving = TRUE,
            !.lastX = IF ball.z <= 0 THEN ball.x ELSE ball.lastX,
            !.lastY = IF ball.z <= 0 THEN ball.y ELSE ball.lastY]

\* A launch without the sand penalty of line 206.
shootBallNoSandPenalty(ball, map, dirx0, diry0, power, angleDeg) ==
    LET len0 == Hypot(dirx0, diry0)
        degenerate == len0 < 1
        dirx == IF degenerate THEN 0 ELSE Div(dirx0 * 1000, len0)
        diry == IF degenerate THEN -1000 ELSE Div(diry0 * 1000, len0)
        terrain == getTerrainAt(map, ball.x, ball.y)
        base0 == Scale(power * LAUNCH_SCALE, terrain.launchFactor)
        baseLaunch == base0
        horizontalSpeed == Scale(baseLaunch, CosT(angleDeg))
        vz == Scale(Scale(baseLaunch, SinT(angleDeg)), Z_SCALE)
        spinY0 == IF ~ball.userSetSpin
                  THEN Scale(baseLaunch, 20)
                  ELSE ball.spinY + Scale(baseLaunch, 5)
        spinX0 == IF ~ball.userSetSpin
                  THEN Div(Scale(-dirx, baseLaunch) * 10, 1000)
                  ELSE ball.spinX + Div(Scale(-dirx, baseLaunch) * 25, 10000)
    IN  [ball EXCEPT
            !.vx = Scale(horizontalSpeed, dirx),
            !.vy = Scale(horizontalSpeed, diry),
            !.vz = vz,
            !.spinX = clampf(spinX0, -Scale(baseLaunch, 80), Scale(baseLaunch, 80)),
            !.spinY = clampf(spinY0, -Scale(baseLaunch, 250), Scale(baseLaunch, 250)),
            !.inAir = (vz > 100),
            !.isMoving = TRUE,
            !.lastX = IF ball.z <= 0 THEN ball.x ELSE ball.lastX,
            !.lastY = IF ball.z <= 0 THEN ball.y ELSE ball.lastY,
            !.userSetSpin = FALSE]

\* A launch without the spin clamps of lines 221-222.
shootBallNoSpinClamp(ball, map, dirx0, diry0, power, angleDeg) ==
    LET len0 == Hypot(dirx0, diry0)
        degenerate == len0 < 1
        dirx == IF degenerate THEN 0 ELSE Div(dirx0 * 1000, len0)
        diry == IF degenerate THEN -1000 ELSE Div(diry0 * 1000, len0)
        terrain == getTerrainAt(map, ball.x, ball.y)
        base0 == Scale(power * LAUNCH_SCALE, terrain.launchFactor)
        baseLaunch == IF terrain.isSand THEN Scale(base0, 450) ELSE base0
        horizontalSpeed == Scale(baseLaunch, CosT(angleDeg))
        vz == Scale(Scale(baseLaunch, SinT(angleDeg)), Z_SCALE)
        spinY0 == IF ~ball.userSetSpin
                  THEN Scale(baseLaunch, 20)
                  ELSE ball.spinY + Scale(baseLaunch, 5)
        spinX0 == IF ~ball.userSetSpin
                  THEN Div(Scale(-dirx, baseLaunch) * 10, 1000)
                  ELSE ball.spinX + Div(Scale(-dirx, baseLaunch) * 25, 10000)
    IN  [ball EXCEPT
            !.vx = Scale(horizontalSpeed, dirx),
            !.vy = Scale(horizontalSpeed, diry),
            !.vz = vz,
            !.spinX = spinX0,
            !.spinY = spinY0,
            !.inAir = (vz > 100),
            !.isMoving = TRUE,
            !.lastX = IF ball.z <= 0 THEN ball.x ELSE ball.lastX,
            !.lastY = IF ball.z <= 0 THEN ball.y ELSE ball.lastY,
            !.userSetSpin = FALSE]

\* A launch that does not record the launch position (lines 227-230 left out).
shootBallNoLast(ball, map, dirx0, diry0, power, angleDeg) ==
    LET len0 == Hypot(dirx0, diry0)
        degenerate == len0 < 1
        dirx == IF degenerate THEN 0 ELSE Div(dirx0 * 1000, len0)
        diry == IF degenerate THEN -1000 ELSE Div(diry0 * 1000, len0)
        terrain == getTerrainAt(map, ball.x, ball.y)
        base0 == Scale(power * LAUNCH_SCALE, terrain.launchFactor)
        baseLaunch == IF terrain.isSand THEN Scale(base0, 450) ELSE base0
        horizontalSpeed == Scale(baseLaunch, CosT(angleDeg))
        vz == Scale(Scale(baseLaunch, SinT(angleDeg)), Z_SCALE)
        spinY0 == IF ~ball.userSetSpin
                  THEN Scale(baseLaunch, 20)
                  ELSE ball.spinY + Scale(baseLaunch, 5)
        spinX0 == IF ~ball.userSetSpin
                  THEN Div(Scale(-dirx, baseLaunch) * 10, 1000)
                  ELSE ball.spinX + Div(Scale(-dirx, baseLaunch) * 25, 10000)
    IN  [ball EXCEPT
            !.vx = Scale(horizontalSpeed, dirx),
            !.vy = Scale(horizontalSpeed, diry),
            !.vz = vz,
            !.spinX = clampf(spinX0, -Scale(baseLaunch, 80), Scale(baseLaunch, 80)),
            !.spinY = clampf(spinY0, -Scale(baseLaunch, 250), Scale(baseLaunch, 250)),
            !.inAir = (vz > 100),
            !.isMoving = TRUE,
            !.userSetSpin = FALSE]

\* dirx, diry in thousandths; power in hundredths; angleDeg in tenths of a degree.
shootBall(ball, map, dirx0, diry0, power, angleDeg) ==
    LET len0 == Hypot(dirx0, diry0)
        degenerate == len0 < 1
        dirx == IF degenerate THEN 0 ELSE Div(dirx0 * 1000, len0)
        diry == IF degenerate THEN -1000 ELSE Div(diry0 * 1000, len0)
        terrain == getTerrainAt(map, ball.x, ball.y)
        base0 == Scale(power * LAUNCH_SCALE, terrain.launchFactor)
        baseLaunch == IF terrain.isSand THEN Scale(base0, 450) ELSE base0
        horizontalSpeed == Scale(baseLaunch, CosT(angleDeg))
        vz == Scale(Scale(baseLaunch, SinT(angleDeg)), Z_SCALE)
        spinY0 == IF ~ball.userSetSpin
                  THEN Scale(baseLaunch, 20)
                  ELSE ball.spinY + Scale(baseLaunch, 5)
        spinX0 == IF ~ball.userSetSpin
                  THEN Div(Scale(-dirx, baseLaunch) * 10, 1000)
                  ELSE ball.spinX + Div(Scale(-dirx, baseLaunch) * 25, 10000)
    IN  [ball EXCEPT
            !.vx = Scale(horizontalSpeed, dirx),
            !.vy = Scale(horizontalSpeed, diry),
            !.vz = vz,
            !.spinX = clampf(spinX0, -Scale(baseLaunch, 80), Scale(baseLaunch, 80)),
            !.spinY = clampf(spinY0, -Scale(baseLaunch, 250), Scale(baseLaunch, 250)),
            !.inAir = (vz > 100),
            !.isMoving = TRUE,
            !.lastX = IF ball.z <= 0 THEN ball.x ELSE ball.lastX,
            !.lastY = IF ball.z <= 0 THEN ball.y ELSE ball.lastY,
            !.userSetSpin = FALSE]

\* updateBall, lines 239-242: gravity and position integration.  The height
\* gains vz (hundredths per second) times DT (milliseconds) exactly.
ubIntegrate(ball) ==
    LET vz1 == ball.vz - Div(GRAVITY_ACCEL * DT, 1000)
    IN  [ball EXCEPT !.vz = vz1,
                     !.x = ball.x + Div(ball.vx * DT, 1000),
                     !.y = ball.y + Div(ball.vy * DT, 1000),
                     !.z = ball.z + vz1 * DT]

\* updateBall, line 244.
ubAirborne(ball) == (ball.z > 100000) \/ ball.inAir

\* updateBall, lines 246-259: wind (attenuated on the ground) and Magnus force.
ubWindMagnus(ball, wind, airborne) ==
    LET wx == Div(Scale(wind.dirX, wind.appliedStrength) * DT, 1000)
        wy == Div(Scale(wind.dirY, wind.appliedStrength) * DT, 1000)
        vx1 == ball.vx + (IF airborne THEN wx ELSE Scale(wx, GROUND_WIND_FACTOR))
        vy1 == ball.vy + (IF airborne THEN wy ELSE Scale(wy, GROUND_WIND_FACTOR))
        magnusX == clampf(Scale(Scale(-ball.spinY * Div(vy1, 100), MAGNUS_COEF), 100),
                          -MAGNUS_MAX, MAGNUS_MAX)
        magnusY == clampf(Scale(Scale(ball.spinY * Div(vx1, 100), MAGNUS_COEF), 100),
                          -MAGNUS_MAX, MAGNUS_MAX)
    IN  IF airborne
        THEN [ball EXCEPT !.vx = vx1 + magnusX, !.vy = vy1 + magnusY]
        ELSE [ball EXCEPT !.vx = vx1, !.vy = vy1]

\* updateBall, lines 261-269: spin decay.
ubSpinDecay(ball, airborne) ==
    LET k == IF airborne THEN SPIN_AIR_DAMP ELSE SPIN_GROUND_DAMP
    IN  [ball EXCEPT !.spinX = Scale(ball.spinX, k),
                     !.spinY = Scale(ball.spinY, k),
                     !.spinZ = Scale(ball.spinZ, k)]

\* A hazard branch that stops the ball where it is, without the revert.
ubHazardInPlace(ball) ==
    [ball EXCEPT !.vx = 0, !.vy = 0, !.vz = 0, !.inAir = FALSE, !.isMoving = FALSE]

\* updateBall, lines 280-285: the hazard branch (the tick returns after it).
ubHazard(ball) ==
    [ball EXCEPT !.x = ball.lastX, !.y = ball.lastY,
                 !.vx = 0, !.vy = 0, !.vz = 0,
                 !.inAir = FALSE, !.isMoving = FALSE]

\* updateBall, lines 287-296: sand.
ubSand(ball) ==
    LET speed == Hypot(ball.vx, ball.vy)
        b1 == IF speed < 4000
              THEN [ball EXCEPT !.vx = 0, !.vy = 0, !.vz = 0,
                                !.inAir = FALSE, !.isMoving = FALSE]
              ELSE [ball EXCEPT !.vx = Scale(ball.vx, 60), !.vy = Scale(ball.vy, 60),
                                !.vz = 0, !.inAir = FALSE]
    IN  [b1 EXCEPT !.lastX = b1.x, !.lastY = b1.y]

\* updateBall, lines 297-300: solid obstacle.
ubSolid(ball) ==
    [ball EXCEPT !.x = ball.lastX, !.y = ball.lastY,
                 !.vx = Scale(ball.vx, -250), !.vy = Scale(ball.vy, -250),
                 !.vz = 0, !.inAir = FALSE]

\* updateBall, line 305: the bounce condition.
ubBounces(ball, terrain) == terrain.bounceFactor > 10 /\ ball.vz < -1000

\* A normal-terrain branch whose bounce loses no energy.
ubNormalElastic(ball, terrain) ==
    LET b1 == [ball EXCEPT !.vx = Scale(ball.vx, terrain.rollDamping),
                           !.vy = Scale(ball.vy, terrain.rollDamping)]
        vzB == -b1.vz
        b2 == IF ubBounces(b1, terrain)
              THEN [b1 EXCEPT !.vz = vzB, !.inAir = (vzB > 400)]
              ELSE [b1 EXCEPT !.vz = 0, !.inAir = FALSE]
    IN  IF ~b2.inAir THEN [b2 EXCEPT !.lastX = b2.x, !.lastY = b2.y] ELSE b2

\* updateBall, lines 301-315: normal terrain (roll damping, bounce or settle).
ubNormal(ball, terrain) ==
    LET b1 == [ball EXCEPT !.vx = Scale(ball.vx, terrain.rollDamping),
                           !.vy = Scale(ball.vy, terrain.rollDamping)]
        vzB == Scale(-b1.vz, terrain.bounceFactor)
        b2 == IF ubBounces(b1, terrain)
              THEN [b1 EXCEPT !.vz = vzB, !.inAir = (vzB > 400)]
              ELSE [b1 EXCEPT !.vz = 0, !.inAir = FALSE]
    IN  IF ~b2.inAir THEN [b2 EXCEPT !.lastX = b2.x, !.lastY = b2.y] ELSE b2

\* A landing check that leaves the height as integrated (no z = 0).
ubLandingNoFloor(ball, terrain) ==
    IF ball.z <= 0
    THEN LET b1 == IF Abs(ball.vz) < 600
                   THEN [ball EXCEPT !.vz = 0, !.inAir = FALSE]
                   ELSE ball
         IN  IF terrain.isHazard
             THEN [ball |-> ubHazard(b1), bounced |-> FALSE, returned |-> TRUE]
             ELSE IF terrain.isSand
             THEN [ball |-> ubSand(b1), bounced |-> FALSE, returned |-> FALSE]
             ELSE IF terrain.isSolid
             THEN [ball |-> ubSolid(b1), bounced |-> FALSE, returned |-> FALSE]
             ELSE [ball |-> ubNormal(b1, terrain),
                   bounced |-> ubBounces(b1, terrain), returned |-> FALSE]
    ELSE [ball |-> ball, bounced |-> FALSE, returned |-> FALSE]

\* updateBall, lines 273-316: the landing check.  Gives the ball, whether it
\* bounced this frame, and whether the tick returned early (hazard).
ubLanding(ball, terrain) ==
    IF ball.z <= 0
    THEN LET b0 == [ball EXCEPT !.z = 0]
             b1 == IF Abs(b0.vz) < 600
                   THEN [b0 EXCEPT !.vz = 0, !.inAir = FALSE]
                   ELSE b0
         IN  IF terrain.isHazard
             THEN [ball |-> ubHazard(b1), bounced |-> FALSE, returned |-> TRUE]
             ELSE IF terrain.isSand
             THEN [ball |-> ubSand(b1), bounced |-> FALSE, returned |-> FALSE]
             ELSE IF terrain.isSolid
             THEN [ball |-> ubSolid(b1), bounced |-> FALSE, returned |-> FALSE]
             ELSE [ball |-> ubNormal(b1, terrain),
                   bounced |-> ubBounces(b1, terrain), returned |-> FALSE]
    ELSE [ball |-> ball, bounced |-> FALSE, returned |-> FALSE]

\* updateBall, lines 318-321: air drag.
ubDrag(ball, airborne, bounced) ==
    IF airborne /\ ~bounced
    THEN [ball EXCEPT
            !.vx = ball.vx - Div(Scale(ball.vx, AIR_DRAG_COEF) * DT, 1000),
            !.vy = ball.vy - Div(Scale(ball.vy, AIR_DRAG_COEF) * DT, 1000)]
    ELSE ball

\* A tick without the secondary rolling pass.
ubRollSkipped(ball, map) == ball

\* updateBall, lines 323-327: the secondary rolling pass.
ubRoll(ball, map) ==
    IF ball.z <= 0 /\ ~ball.inAir /\ (Abs(ball.vx) > 0 \/ Abs(ball.vy) > 0)
    THEN LET t2 == getTerrainAt(map, ball.x, ball.y)
         IN  [ball EXCEPT !.vx = Scale(ball.vx, t2.rollDamping),
                          !.vy = Scale(ball.vy, t2.rollDamping)]
    ELSE ball

\* updateBall, lines 329-330: clamp to the course.
ubClamp(ball) ==
    [ball EXCEPT !.x = clampf(ball.x, 0, SCREEN_WIDTH - 100),
                 !.y = clampf(ball.y, 0, SCREEN_HEIGHT - 100)]

\* Stop conditions whose low-speed branch clears isMoving and keeps the velocity.
ubStopKeepsSpeed(ball) ==
    LET speed == Hypot(ball.vx, ball.vy)
    IN  IF speed < STOP_SPEED /\ ball.z <= 5000 /\ Abs(ball.vz) < 20
        THEN [ball EXCEPT !.vx = 0, !.vy = 0, !.vz = 0,
                          !.inAir = FALSE, !.isMoving = FALSE]
        ELSE IF speed < LOW_SPEED_KILL /\ ball.z <= 5000 /\ ~ball.inAir
        THEN [ball EXCEPT !.isMoving = FALSE]
        ELSE ball

\* updateBall, lines 332-339: the stop conditions.
ubStop(ball) ==
    LET speed == Hypot(ball.vx, ball.vy)
    IN  IF speed < STOP_SPEED /\ ball.z <= 5000 /\ Abs(ball.vz) < 20
        THEN [ball EXCEPT !.vx = 0, !.vy = 0, !.vz = 0,
                          !.inAir = FALSE, !.isMoving = FALSE]
        ELSE IF speed < LOW_SPEED_KILL /\ ball.z <= 5000 /\ ~ball.inAir
        THEN [ball EXCEPT !.vx = 0, !.vy = 0, !.isMoving = FALSE]
        ELSE ball

\* A tick without the isMoving guard of line 236.
updateBallNoGuard(ball, map, wind) ==
    LET b1 == ubIntegrate(ball)
        airborne == ubAirborne(b1)
        b2 == ubSpinDecay(ubWindMagnus(b1, wind, airborne), airborne)
        terrain == getTerrainAt(map, b2.x, b2.y)
        land == ubLanding(b2, terrain)
    IN  IF land.returned THEN land.ball
        ELSE ubStop(ubClamp(ubRoll(ubDrag(land.ball, airborne, land.bounced), map)))

\* updateBall: one tick of one ball.
\* (Each intermediate value is bound once, as the only element of a set.)
updateBall(ball, map, wind) ==
    IF ~ball.isMoving THEN ball
    ELSE CHOOSE after \in
           UNION { UNION { UNION { UNION {
             { IF land.returned THEN land.ball ELSE ubStop(b4)
                 : b4 \in {ubClamp(b3)} }
               : b3 \in {ubRoll(ubDrag(land.ball, ubAirborne(b1), land.bounced),
                                map)} }
               : land \in {ubLanding(b2, getTerrainAt(map, b2.x, b2.y))} }
               : b2 \in {ubSpinDecay(ubWindMagnus(b1, wind, ubAirborne(b1)),
                                     ubAirborne(b1))} }
               : b1 \in {ubIntegrate(ball)} } : TRUE

\* isNearHole: strictly within 15 units of a valid hole position.
isNearHole(x, y, holePos) ==
    IF holePos.x < 0 THEN FALSE
    ELSE Hypot(x - holePos.x, y - holePos.y) < 1500

(***************************************************************************)
(* Program state: the locals of main, the GameState, the pipe globals, the *)
(* descriptor table and the connection threads.  ev records what the last  *)
(* frame did (it is not program state); frames counts the frames of the    *)
(* current game session.                                                   *)
(***************************************************************************)
VARIABLES running, currentScreen, gameInitialized, game, startPos,
          currentTurn, playerStrokes, aiStrokes,
          send_counter_demo, send_counter_vs,
          ai_connecting, ai_connected, ai_pipe_fd, state_pipe_fd,
          fdTable, threads, ev, frames

vars == <<running, currentScreen, gameInitialized, game, startPos,
          currentTurn, playerStrokes, aiStrokes,
          send_counter_demo, send_counter_vs,
          ai_connecting, ai_connected, ai_pipe_fd, state_pipe_fd,
          fdTable, threads, ev, frames>>

\* Bounds of the model.
MaxFrames == 12
MaxStrokes == 2
MaxThreads == 1

NoImage == [width |-> 0, height |-> 0, base |-> ColHole, cells |-> << >>]

\* The course of the model: start marker at cell (1,1), hole at (2,2), sand
\* below the start, water to its left, fairway elsewhere.
CourseA ==
    [width |-> MAP_SIZE, height |-> MAP_SIZE, base |-> ColFairway,
     cells |-> (<<1, 1>> :> ColStart) @@ (<<2, 2>> :> ColHole)
               @@ (<<1, 2>> :> ColSand) @@ (<<0, 1>> :> ColWater)]

Maps == {CourseA}

ZeroBall ==
    [x |-> 0, y |-> 0, z |-> 0, vx |-> 0, vy |-> 0, vz |-> 0,
     spinX |-> 0, spinY |-> 0, spinZ |-> 0, inAir |-> FALSE, isMoving |-> FALSE,
     lastX |-> 0, lastY |-> 0, angle |-> 0, userSetSpin |-> FALSE]

ZeroWind ==
    [dirX |-> 0, dirY |-> 0, targetStrength |-> 0, appliedStrength |-> 0, timer |-> 0]

\* GameState game = {0}.
ZeroGame ==
    [ball |-> ZeroBall, aiBall |-> ZeroBall, wind |-> ZeroWind, mapImage |-> NoImage,
     dragStart |-> [x |-> 0, y |-> 0], isDragging |-> FALSE, strokes |-> 0,
     gameWon |-> FALSE, aiWon |-> FALSE, holePos |-> [x |-> 0, y |-> 0]]

NoPre == [moving |-> FALSE, won |-> FALSE, turn |-> "none", connected |-> FALSE]

NoSnap ==
    [sent |-> FALSE, written |-> FALSE, x |-> 0, y |-> 0, strokes |-> 0,
     stopped |-> FALSE, won |-> FALSE]

\* The arguments of a shootBall call: aim, power, loft.
NoShot == [dirx |-> 0, diry |-> 0, power |-> 0, angle |-> 0]

\* What a frame did: game initialisation, ESC, reset, each launch and each
\* channel read with the values that held when it happened and the arguments
\* shootBall was given, each win detection of versus mode, a snapshot; for a
\* lone shootBall call or updateBall tick, the ball before it; for a lone wind
\* update, the simulated time since the wind last picked a new timer (-1 if it
\* never did) and between the last two times it did (0 if fewer than two); for
\* a lone terrain lookup, the properties it returned.
EvNone ==
    [init |-> FALSE, esc |-> FALSE, reset |-> FALSE,
     pLaunch |-> FALSE, pPre |-> NoPre, pShot |-> NoShot,
     aLaunch |-> FALSE, aPre |-> NoPre, aShot |-> NoShot,
     read |-> FALSE, readBlocking |-> FALSE, rPre |-> NoPre,
     pWin |-> FALSE, aWin |-> FALSE, snap |-> NoSnap,
     tick |-> FALSE, before |-> ZeroBall, wSince |-> -1, wGap |-> 0,
     looked |-> FALSE, terrain |-> TerrainDefault,
     lastSnap |-> -1, snapGap |-> 0, got |-> "none",
     from |-> [x |-> -1, y |-> -1], fromGround |-> FALSE, contacts |-> 0]

\* The main loop's state as one record, threaded through the steps of a frame.
Main ==
    [currentScreen |-> currentScreen, gameInitialized |-> gameInitialized,
     game |-> game, startPos |-> startPos, currentTurn |-> currentTurn,
     playerStrokes |-> playerStrokes, aiStrokes |-> aiStrokes,
     send_counter_demo |-> send_counter_demo, send_counter_vs |-> send_counter_vs,
     ai_connecting |-> ai_connecting, threads |-> threads,
     ev |-> EvNone, frames |-> frames]

Init ==
    /\ running = TRUE
    /\ currentScreen = "MENU"
    /\ gameInitialized = FALSE
    /\ game = ZeroGame
    /\ startPos = [x |-> 0, y |-> 0]
    /\ currentTurn = "PLAYER"
    /\ playerStrokes = 0
    /\ aiStrokes = 0
    /\ send_counter_demo = 0
    /\ send_counter_vs = 0
    /\ ai_connecting = FALSE
    /\ ai_connected = FALSE
    /\ ai_pipe_fd = -1
    /\ state_pipe_fd = -1
    /\ fdTable = << >>
    /\ threads = << >>
    /\ ev = EvNone
    /\ frames = 0

(***************************************************************************)
(* The steps of one frame of main's loop, in source order.  in is the      *)
(* frame's input: keys, mouse, what a read() of the command pipe would     *)
(* return, whether a write() to the state pipe succeeds, the image that    *)
(* LoadImage gives, and the rand() draws.                                  *)
(***************************************************************************)
\* setupAIPipes, lines 498-506: raise ai_connecting and start a connection thread.
setupAIPipes(m) ==
    [m EXCEPT !.ai_connecting = TRUE, !.threads = Append(@, "open_ai")]

\* main, lines 588-626: game initialisation on first entry.
InitGame(m, in) ==
    LET m1 == IF m.currentScreen \in {"AI_DEMO", "VS"} THEN setupAIPipes(m) ELSE m
        sp == findStartPosition(in.map)
        g  == [m1.game EXCEPT
                 !.mapImage = in.map,
                 !.holePos = findHolePosition(in.map),
                 !.ball = initBall(sp),
                 !.aiBall = IF m1.currentScreen = "VS" THEN initBall(sp) ELSE @,
                 !.strokes = 0,
                 !.isDragging = FALSE,
                 !.gameWon = FALSE,
                 !.aiWon = FALSE,
                 !.wind = WindInit]
    IN  [m1 EXCEPT !.game = g, !.startPos = sp, !.gameInitialized = TRUE,
                   !.ev.init = TRUE, !.frames = 0]

\* An ESC handler that also clears the win flags.
EscToMenuClearing(m) ==
    [m EXCEPT !.currentScreen = "MENU", !.gameInitialized = FALSE, !.ev.esc = TRUE,
              !.game.gameWon = FALSE, !.game.aiWon = FALSE]

\* main, lines 629-635: ESC goes back to the menu (the frame ends there).
EscToMenu(m) ==
    [m EXCEPT !.currentScreen = "MENU", !.gameInitialized = FALSE, !.ev.esc = TRUE]

\* main, lines 640-641.
allowManualInput(m) ==
    (m.currentScreen = "MANUAL")
    \/ (m.currentScreen = "VS" /\ m.currentTurn = "PLAYER")

\* main, lines 644-650: loft and spin keys.
ManualKeys(ball, keys) ==
    LET a1 == IF "UP" \in keys
              THEN (IF ball.angle + 8 < 750 THEN ball.angle + 8 ELSE 750)
              ELSE ball.angle
        a2 == IF "DOWN" \in keys THEN (IF a1 - 8 > 0 THEN a1 - 8 ELSE 0) ELSE a1
        sx == ball.spinX - (IF "A" \in keys THEN 100 ELSE 0)
                         + (IF "D" \in keys THEN 100 ELSE 0)
        sy == ball.spinY + (IF "W" \in keys THEN 100 ELSE 0)
                         - (IF "S" \in keys THEN 100 ELSE 0)
    IN  [ball EXCEPT !.angle = a2, !.spinX = sx, !.spinY = sy,
                     !.userSetSpin = @ \/ (keys \cap {"A", "D", "W", "S"} # {})]

\* A drag release that launches without handing the turn over (line 672 left out).
ManualReleaseKeepsTurn(m, in) ==
    LET g  == m.game
        dx == g.dragStart.x - in.mousePos.x
        dy == g.dragStart.y - in.mousePos.y
        raw == Hypot(dx, dy)
        rawPower == IF raw > MAX_DRAG_DISTANCE THEN MAX_DRAG_DISTANCE ELSE raw
        mag == Hypot(dx, dy)
        m1 == [m EXCEPT !.game.isDragging = FALSE]
    IN  IF rawPower > 500
        THEN LET shot == shootBall(g.ball, g.mapImage, Div(dx * 1000, mag),
                                   Div(dy * 1000, mag), rawPower, g.ball.angle)
                 m2 == [m1 EXCEPT
                          !.game.ball = shot,
                          !.game.strokes = @ + 1,
                          !.ev.pLaunch = TRUE,
                          !.ev.pShot = [dirx |-> Div(dx * 1000, mag),
                                        diry |-> Div(dy * 1000, mag),
                                        power |-> rawPower, angle |-> g.ball.angle],
                          !.ev.pPre = [moving |-> g.ball.isMoving, won |-> g.gameWon,
                                       turn |-> m.currentTurn, connected |-> FALSE]]
             IN  IF m.currentScreen = "VS"
                 THEN [m2 EXCEPT !.playerStrokes = @ + 1]
                 ELSE m2
        ELSE m1

\* main, lines 657-675: a drag release launches the player's ball.
ManualRelease(m, in) ==
    LET g  == m.game
        dx == g.dragStart.x - in.mousePos.x
        dy == g.dragStart.y - in.mousePos.y
        raw == Hypot(dx, dy)
        rawPower == IF raw > MAX_DRAG_DISTANCE THEN MAX_DRAG_DISTANCE ELSE raw
        mag == Hypot(dx, dy)
        m1 == [m EXCEPT !.game.isDragging = FALSE]
    IN  IF rawPower > 500
        THEN LET shot == shootBall(g.ball, g.mapImage, Div(dx * 1000, mag),
                                   Div(dy * 1000, mag), rawPower, g.ball.angle)
                 m2 == [m1 EXCEPT
                          !.game.ball = shot,
                          !.game.strokes = @ + 1,
                          !.ev.pLaunch = TRUE,
                          !.ev.pShot = [dirx |-> Div(dx * 1000, mag),
                                        diry |-> Div(dy * 1000, mag),
                                        power |-> rawPower, angle |-> g.ball.angle],
                          !.ev.pPre = [moving |-> g.ball.isMoving, won |-> g.gameWon,
                                       turn |-> m.currentTurn, connected |-> FALSE]]
             IN  IF m.currentScreen = "VS"
                 THEN [m2 EXCEPT !.playerStrokes = @ + 1, !.currentTurn = "AI"]
                 ELSE m2
        ELSE m1

\* Manual input without the guard on the ball being at rest (line 643).
ManualInputAnytime(m, in) ==
    IF allowManualInput(m) /\ ~m.game.gameWon
    THEN LET m1 == [m EXCEPT !.game.ball = ManualKeys(@, in.keys)]
             m2 == IF in.mouse = "pressed"
                   THEN [m1 EXCEPT !.game.dragStart = in.mousePos,
                                   !.game.isDragging = TRUE]
                   ELSE m1
         IN  IF m2.game.isDragging /\ in.mouse = "released"
             THEN ManualRelease(m2, in)
             ELSE m2
    ELSE m

\* Manual input without the guard on the win flag (line 643).
ManualInputAfterWin(m, in) ==
    IF allowManualInput(m) /\ ~m.game.ball.isMoving
    THEN LET m1 == [m EXCEPT !.game.ball = ManualKeys(@, in.keys)]
             m2 == IF in.mouse = "pressed"
                   THEN [m1 EXCEPT !.game.dragStart = in.mousePos,
                                   !.game.isDragging = TRUE]
                   ELSE m1
         IN  IF m2.game.isDragging /\ in.mouse = "released"
             THEN ManualRelease(m2, in)
             ELSE m2
    ELSE m

\* main, lines 639-676: manual input (and versus mode on the player's turn).
ManualInput(m, in) ==
    IF allowManualInput(m) /\ ~m.game.ball.isMoving /\ ~m.game.gameWon
    THEN LET m1 == [m EXCEPT !.game.ball = ManualKeys(@, in.keys)]
             m2 == IF in.mouse = "pressed"
                   THEN [m1 EXCEPT !.game.dragStart = in.mousePos,
                                   !.game.isDragging = TRUE]
                   ELSE m1
         IN  IF m2.game.isDragging /\ in.mouse = "released"
             THEN ManualRelease(m2, in)
             ELSE m2
    ELSE m

\* sendGameStateWithWon, lines 508-532: the snapshot describes game.ball and
\* game.strokes; nothing is written without a state pipe descriptor.
sendGameStateWithWon(m, won, in) ==
    IF state_pipe_fd < 0
    THEN m
    ELSE [m EXCEPT !.ev.snap =
            [sent |-> TRUE, written |-> in.writeOk,
             x |-> m.game.ball.x, y |-> m.game.ball.y,
             strokes |-> m.game.strokes,
             stopped |-> ~m.game.ball.isMoving, won |-> won]]

\* A readAICommand that accepts any read that returned bytes.
readAICommandAnyBytes(in) == ai_pipe_fd >= 0 /\ in.pipe \in {"cmd", "short"}

\* readAICommand, lines 538-543: TRUE only for a read of one whole record.
readAICommand(in) == ai_pipe_fd >= 0 /\ in.pipe = "cmd"

\* What holds for the receiving ball b when a command is read or consumed.
PreOf(m, b, won) ==
    [moving |-> b.isMoving, won |-> won, turn |-> m.currentTurn,
     connected |-> ai_connected]

\* The frame attempted a read(); it blocks if the descriptor is in blocking mode.
NoteRead(m, pre) ==
    IF ai_pipe_fd >= 0
    THEN [m EXCEPT !.ev.read = TRUE,
                   !.ev.readBlocking = ~fdTable[ai_pipe_fd].nonblock,
                   !.ev.rPre = pre]
    ELSE m

\* An AI demo that publishes on every 30th count instead of every 60th.
AiDemoEvery30(m, in) ==
    IF m.currentScreen = "AI_DEMO"
    THEN LET m1 == IF ai_connected /\ ~m.game.ball.isMoving
                   THEN LET c == m.send_counter_demo
                            mm == [m EXCEPT !.send_counter_demo = c + 1]
                        IN  IF c % 30 = 0
                            THEN sendGameStateWithWon(mm, mm.game.gameWon, in)
                            ELSE mm
                   ELSE m
         IN  IF ai_connected /\ ~m1.game.ball.isMoving /\ ~m1.game.gameWon
             THEN LET pre == PreOf(m1, m1.game.ball, m1.game.gameWon)
                      m2 == NoteRead(m1, pre)
                  IN  IF readAICommand(in)
                      THEN [m2 EXCEPT
                              !.game.ball = shootBall(m1.game.ball, m1.game.mapImage,
                                                      in.cmd.dirx, in.cmd.diry,
                                                      in.cmd.power, in.cmd.angle),
                              !.game.strokes = @ + 1,
                              !.ev.aLaunch = TRUE,
                              !.ev.aShot = [dirx |-> in.cmd.dirx, diry |-> in.cmd.diry,
                                            power |-> in.cmd.power,
                                            angle |-> in.cmd.angle],
                              !.ev.aPre = pre]
                      ELSE m2
             ELSE m1
    ELSE m

\* An AI demo whose launch adds the command's spin fields to the ball's spin.
AiDemoSpinApplied(m, in) ==
    IF m.currentScreen = "AI_DEMO"
    THEN LET m1 == IF ai_connected /\ ~m.game.ball.isMoving
                   THEN LET c == m.send_counter_demo
                            mm == [m EXCEPT !.send_counter_demo = c + 1]
                        IN  IF c % 60 = 0
                            THEN sendGameStateWithWon(mm, mm.game.gameWon, in)
                            ELSE mm
                   ELSE m
         IN  IF ai_connected /\ ~m1.game.ball.isMoving /\ ~m1.game.gameWon
             THEN LET pre == PreOf(m1, m1.game.ball, m1.game.gameWon)
                      m2 == NoteRead(m1, pre)
                      shot == shootBall(m1.game.ball, m1.game.mapImage,
                                        in.cmd.dirx, in.cmd.diry,
                                        in.cmd.power, in.cmd.angle)
                  IN  IF readAICommand(in)
                      THEN [m2 EXCEPT
                              !.game.ball = [shot EXCEPT !.spinX = @ + in.cmd.spinx,
                                                         !.spinY = @ + in.cmd.spiny],
                              !.game.strokes = @ + 1,
                              !.ev.aLaunch = TRUE,
                              !.ev.aShot = [dirx |-> in.cmd.dirx, diry |-> in.cmd.diry,
                                            power |-> in.cmd.power,
                                            angle |-> in.cmd.angle],
                              !.ev.aPre = pre]
                      ELSE m2
             ELSE m1
    ELSE m

\* main, lines 679-698: AI demo mode (snapshot, then a command launches the ball).
AiDemo(m, in) ==
    IF m.currentScreen = "AI_DEMO"
    THEN LET m1 == IF ai_connected /\ ~m.game.ball.isMoving
                   THEN LET c == m.send_counter_demo
                            mm == [m EXCEPT !.send_counter_demo = c + 1]
                        IN  IF c % 60 = 0
                            THEN sendGameStateWithWon(mm, mm.game.gameWon, in)
                            ELSE mm
                   ELSE m
         IN  IF ai_connected /\ ~m1.game.ball.isMoving /\ ~m1.game.gameWon
             THEN LET pre == PreOf(m1, m1.game.ball, m1.game.gameWon)
                      m2 == NoteRead(m1, pre)
                  IN  IF readAICommand(in)
                      THEN [m2 EXCEPT
                              !.game.ball = shootBall(m1.game.ball, m1.game.mapImage,
                                                      in.cmd.dirx, in.cmd.diry,
                                                      in.cmd.power, in.cmd.angle),
                              !.game.strokes = @ + 1,
                              !.ev.aLaunch = TRUE,
                              !.ev.aShot = [dirx |-> in.cmd.dirx, diry |-> in.cmd.diry,
                                            power |-> in.cmd.power,
                                            angle |-> in.cmd.angle],
                              !.ev.aPre = pre]
                      ELSE m2
             ELSE m1
    ELSE m

\* A player win detection that hands the turn over but leaves the flag clear.
VsPlayerWinCheckNoFlag(m) ==
    IF ~m.game.ball.isMoving /\ ~m.game.gameWon
       /\ isNearHole(m.game.ball.x, m.game.ball.y, m.game.holePos)
    THEN LET m1 == [m EXCEPT !.ev.pWin = TRUE]
         IN  IF ~m1.game.aiWon THEN [m1 EXCEPT !.currentTurn = "AI"] ELSE m1
    ELSE m

\* main, lines 711-720: the player's ball reached the hole.
VsPlayerWinCheck(m) ==
    IF ~m.game.ball.isMoving /\ ~m.game.gameWon
       /\ isNearHole(m.game.ball.x, m.game.ball.y, m.game.holePos)
    THEN LET m1 == [m EXCEPT !.game.gameWon = TRUE, !.ev.pWin = TRUE]
         IN  IF ~m1.game.aiWon THEN [m1 EXCEPT !.currentTurn = "AI"] ELSE m1
    ELSE m

\* An AI win detection that never sets the flag.
VsAiWinCheckSkipped(m) == m

\* main, lines 722-726: the AI's ball reached the hole.
VsAiWinCheck(m) ==
    IF ~m.game.aiBall.isMoving /\ ~m.game.aiWon
       /\ isNearHole(m.game.aiBall.x, m.game.aiBall.y, m.game.holePos)
    THEN [m EXCEPT !.game.aiWon = TRUE, !.ev.aWin = TRUE]
    ELSE m

\* main, lines 728-739: the versus snapshot (game.ball is swapped for the AI
\* ball around the send).
VsSnapshot(m, in) ==
    IF ai_connected /\ ~m.game.aiBall.isMoving /\ ~m.game.aiWon
    THEN LET c == m.send_counter_vs
             mm == [m EXCEPT !.send_counter_vs = c + 1]
         IN  IF c % 60 = 0
             THEN LET temp == mm.game.ball
                      swapped == [mm EXCEPT !.game.ball = mm.game.aiBall]
                      sent == sendGameStateWithWon(swapped, FALSE, in)
                  IN  [sent EXCEPT !.game.ball = temp]
             ELSE mm
    ELSE m

\* An AI launch in versus mode that leaves the AI's stroke counter alone (line 749 left out).
VsAiLaunchUncounted(m, in) ==
    IF m.currentTurn = "AI" /\ ai_connected /\ ~m.game.aiBall.isMoving /\ ~m.game.aiWon
    THEN LET pre == PreOf(m, m.game.aiBall, m.game.aiWon)
             m1 == NoteRead(m, pre)
         IN  IF readAICommand(in)
             THEN LET m2 == [m1 EXCEPT
                               !.game.aiBall = shootBall(m.game.aiBall, m.game.mapImage,
                                                         in.cmd.dirx, in.cmd.diry,
                                                         in.cmd.power, in.cmd.angle),
                               !.ev.aLaunch = TRUE,
                               !.ev.aShot = [dirx |-> in.cmd.dirx, diry |-> in.cmd.diry,
                                             power |-> in.cmd.power,
                                             angle |-> in.cmd.angle],
                               !.ev.aPre = pre]
                  IN  IF ~m2.game.gameWon THEN [m2 EXCEPT !.currentTurn = "PLAYER"] ELSE m2
             ELSE m1
    ELSE m

\* main, lines 741-757: on the AI's turn a command launches the AI ball.
VsAiLaunch(m, in) ==
    IF m.currentTurn = "AI" /\ ai_connected /\ ~m.game.aiBall.isMoving /\ ~m.game.aiWon
    THEN LET pre == PreOf(m, m.game.aiBall, m.game.aiWon)
             m1 == NoteRead(m, pre)
         IN  IF readAICommand(in)
             THEN LET m2 == [m1 EXCEPT
                               !.game.aiBall = shootBall(m.game.aiBall, m.game.mapImage,
                                                         in.cmd.dirx, in.cmd.diry,
                                                         in.cmd.power, in.cmd.angle),
                               !.aiStrokes = @ + 1,
                               !.ev.aLaunch = TRUE,
                               !.ev.aShot = [dirx |-> in.cmd.dirx, diry |-> in.cmd.diry,
                                             power |-> in.cmd.power,
                                             angle |-> in.cmd.angle],
                               !.ev.aPre = pre]
                  IN  IF ~m2.game.gameWon THEN [m2 EXCEPT !.currentTurn = "PLAYER"] ELSE m2
             ELSE m1
    ELSE m

\* No forced-turn guards.
VsNoForcedTurn(m) == m

\* main, lines 759-769: the forced-turn guards.
VsForcedTurn(m) ==
    LET m1 == IF m.currentTurn = "AI" /\ m.game.aiWon /\ ~m.game.gameWon
                 /\ ~m.game.aiBall.isMoving
              THEN [m EXCEPT !.currentTurn = "PLAYER"]
              ELSE m
    IN  IF m1.currentTurn = "PLAYER" /\ m1.game.gameWon /\ ~m1.game.aiWon
           /\ ~m1.game.ball.isMoving
        THEN [m1 EXCEPT !.currentTurn = "AI"]
        ELSE m1

\* main, lines 710-812: versus mode.
VsMode(m, in) ==
    IF m.currentScreen = "VS"
    THEN VsForcedTurn(VsAiLaunch(VsSnapshot(VsAiWinCheck(VsPlayerWinCheck(m)), in), in))
    ELSE m

\* An R key that leaves the turn indicator as it was.
ResetKeyKeepsTurn(m) ==
    LET m1 == [m EXCEPT !.game.ball = initBall(m.startPos),
                        !.game.strokes = 0,
                        !.game.gameWon = FALSE,
                        !.ev.reset = TRUE]
    IN  IF m.currentScreen = "VS"
        THEN [m1 EXCEPT !.game.aiBall = initBall(m.startPos),
                        !.game.aiWon = FALSE,
                        !.playerStrokes = 0,
                        !.aiStrokes = 0]
        ELSE m1

\* main, lines 814-827: the R key.
ResetKey(m) ==
    LET m1 == [m EXCEPT !.game.ball = initBall(m.startPos),
                        !.game.strokes = 0,
                        !.game.gameWon = FALSE,
                        !.ev.reset = TRUE]
    IN  IF m.currentScreen = "VS"
        THEN [m1 EXCEPT !.game.aiBall = initBall(m.startPos),
                        !.game.aiWon = FALSE,
                        !.playerStrokes = 0,
                        !.aiStrokes = 0,
                        !.currentTurn = "PLAYER"]
        ELSE m1

\* A win check without the guard on the ball being at rest.
SingleWinCheckMoving(m) ==
    IF m.currentScreen # "VS"
       /\ isNearHole(m.game.ball.x, m.game.ball.y, m.game.holePos)
    THEN [m EXCEPT !.game.gameWon = TRUE]
    ELSE m

\* main, lines 837-842: the win check of the modes other than versus.
SingleWinCheck(m) ==
    IF m.currentScreen # "VS"
       /\ ~m.game.ball.isMoving
       /\ isNearHole(m.game.ball.x, m.game.ball.y, m.game.holePos)
    THEN [m EXCEPT !.game.gameWon = TRUE]
    ELSE m

\* main, lines 829-842: wind, ball physics, win check.
Physics(m, in) ==
    LET w  == updateWind(m.game.wind, in.r1, in.r2, in.r3)
        b  == updateBall(m.game.ball, m.game.mapImage, w)
        m1 == [m EXCEPT !.game.wind = w, !.game.ball = b]
        m2 == IF m.currentScreen = "VS"
              THEN [m1 EXCEPT !.game.aiBall =
                                 updateBall(m.game.aiBall, m.game.mapImage, w)]
              ELSE m1
    IN  SingleWinCheck(m2)

\* One iteration of main's loop on a game screen, lines 587-922.
FrameBody(m, in) ==
    LET m0 == [m EXCEPT !.frames = @ + 1]
        m1 == IF ~m0.gameInitialized THEN InitGame(m0, in) ELSE m0
    IN  IF "ESC" \in in.keys
        THEN EscToMenu(m1)
        ELSE LET m2 == VsMode(AiDemo(ManualInput(m1, in), in), in)
                 m3 == IF "R" \in in.keys THEN ResetKey(m2) ELSE m2
             IN  Physics(m3, in)

\* The frame's result written back to the variables.
Commit(m) ==
    /\ currentScreen' = m.currentScreen
    /\ gameInitialized' = m.gameInitialized
    /\ game' = m.game
    /\ startPos' = m.startPos
    /\ currentTurn' = m.currentTurn
    /\ playerStrokes' = m.playerStrokes
    /\ aiStrokes' = m.aiStrokes
    /\ send_counter_demo' = m.send_counter_demo
    /\ send_counter_vs' = m.send_counter_vs
    /\ ai_connecting' = m.ai_connecting
    /\ threads' = m.threads
    /\ ev' = m.ev
    /\ frames' = m.frames

(***************************************************************************)
(* The inputs of the model.                                                *)
(***************************************************************************)
PressPos == [x |-> 10000, y |-> 10000]

\* Released here, the drag from PressPos aims at the sand beside the hole.
ReleaseHole == [x |-> 7800, y |-> 6700]

\* Released here, the drag from PressPos aims at the water.
ReleaseWater == [x |-> 13000, y |-> 10000]

UserInputs ==
    {[keys |-> {}, mouse |-> "none", mousePos |-> PressPos],
     [keys |-> {}, mouse |-> "pressed", mousePos |-> PressPos],
     [keys |-> {}, mouse |-> "released", mousePos |-> ReleaseHole],
     [keys |-> {}, mouse |-> "released", mousePos |-> ReleaseWater],
     [keys |-> {}, mouse |-> "released", mousePos |-> PressPos],
     [keys |-> {"R"}, mouse |-> "none", mousePos |-> PressPos],
     [keys |-> {"R"}, mouse |-> "released", mousePos |-> ReleaseHole],
     [keys |-> {"ESC"}, mouse |-> "none", mousePos |-> PressPos]}

\* AI commands: a roll into the sand beside the hole, and one into the water.
CmdHole ==
    [dirx |-> 500, diry |-> 866, angle |-> 0, power |-> 15000, spinx |-> 0, spiny |-> 0]

CmdWater ==
    [dirx |-> -1000, diry |-> 0, angle |-> 0, power |-> 15000, spinx |-> 0, spiny |-> 0]

\* What the pipes do in a frame: what a read() returns (nothing, part of a
\* record, one whole record) and whether a write() succeeds.
PipeInputs ==
    {[pipe |-> "none", cmd |-> CmdHole, writeOk |-> TRUE],
     [pipe |-> "none", cmd |-> CmdHole, writeOk |-> FALSE],
     [pipe |-> "short", cmd |-> CmdHole, writeOk |-> TRUE],
     [pipe |-> "cmd", cmd |-> CmdHole, writeOk |-> TRUE],
     [pipe |-> "cmd", cmd |-> CmdWater, writeOk |-> TRUE]}

\* The pipes deliver or refuse something only once the thread has connected them.
Inputs ==
    {[keys |-> u.keys, mouse |-> u.mouse, mousePos |-> u.mousePos,
      pipe |-> p.pipe, cmd |-> p.cmd, writeOk |-> p.writeOk, map |-> mp,
      r1 |-> 0, r2 |-> 0, r3 |-> 0] :
        u \in UserInputs,
        p \in IF ai_connected THEN PipeInputs
              ELSE {[pipe |-> "none", cmd |-> CmdHole, writeOk |-> TRUE]},
        mp \in Maps}

\* An input that launches is offered only below the stroke bound.
WithinStrokes(in) ==
    /\ in.mouse = "released" =>
          (game.strokes < MaxStrokes /\ playerStrokes < MaxStrokes)
    /\ in.pipe = "cmd" => (game.strokes < MaxStrokes /\ aiStrokes < MaxStrokes)

(***************************************************************************)
(* The frame loop's actions.                                               *)
(***************************************************************************)
connVars == <<ai_connected, ai_pipe_fd, state_pipe_fd, fdTable>>

\* main, lines 569-585: a frame on the menu screen (choices 1 to 3).
MenuFrame ==
    /\ running /\ currentScreen = "MENU"
    /\ game = ZeroGame
    /\ \E choice \in {"MANUAL", "AI_DEMO", "VS"} :
          /\ choice # "MANUAL" => Len(threads) < MaxThreads
          /\ currentScreen' = choice
    /\ ev' = EvNone
    /\ UNCHANGED <<running, gameInitialized, game, startPos, currentTurn,
                   playerStrokes, aiStrokes, send_counter_demo, send_counter_vs,
                   ai_connecting, threads, frames>>
    /\ UNCHANGED connVars

\* main, lines 587-922: a frame on a game screen.
GameFrame ==
    /\ running /\ currentScreen # "MENU"
    /\ frames < MaxFrames
    /\ \E in \in Inputs :
          /\ WithinStrokes(in)
          /\ Commit(FrameBody(Main, in))
    /\ UNCHANGED running
    /\ UNCHANGED connVars

CloseFd(t, fd) == IF fd >= 0 THEN [t EXCEPT ![fd].open = FALSE] ELSE t

\* main, lines 577-578 and 925-932: Quit on the menu ends the loop and
\* cleanupAIPipes closes the descriptors.
Quit ==
    /\ running /\ currentScreen = "MENU"
    /\ running' = FALSE
    /\ fdTable' = CloseFd(CloseFd(fdTable, ai_pipe_fd), state_pipe_fd)
    /\ ev' = EvNone
    /\ UNCHANGED <<currentScreen, gameInitialized, game, startPos, currentTurn,
                   playerStrokes, aiStrokes, send_counter_demo, send_counter_vs,
                   ai_connecting, ai_connected, ai_pipe_fd, state_pipe_fd,
                   threads, frames>>

(***************************************************************************)
(* The connection thread, connectAIPipes, one action per statement.        *)
(***************************************************************************)
mainVars == <<running, currentScreen, gameInitialized, game, startPos, currentTurn,
              playerStrokes, aiStrokes, send_counter_demo, send_counter_vs,
              ev, frames>>

At(i, pc) == running /\ i \in 1..Len(threads) /\ threads[i] = pc

Goto(i, pc) == threads' = [threads EXCEPT ![i] = pc]

NewFd == [open |-> TRUE, nonblock |-> FALSE]

SetNonblock(t, fd) == IF fd >= 0 THEN [t EXCEPT ![fd].nonblock = TRUE] ELSE t

\* line 480: ai_pipe_fd = open(AI_PIPE_NAME, O_RDONLY), once a writer is there.
ConnOpenAi ==
    \E i \in 1..Len(threads) :
        /\ At(i, "open_ai")
        /\ fdTable' = Append(fdTable, NewFd)
        /\ ai_pipe_fd' = Len(fdTable) + 1
        /\ Goto(i, "open_state")
        /\ UNCHANGED <<ai_connected, ai_connecting, state_pipe_fd>>
        /\ UNCHANGED mainVars

\* line 484: state_pipe_fd = open(STATE_PIPE_NAME, O_WRONLY), once a reader is there.
ConnOpenState ==
    \E i \in 1..Len(threads) :
        /\ At(i, "open_state")
        /\ fdTable' = Append(fdTable, NewFd)
        /\ state_pipe_fd' = Len(fdTable) + 1
        /\ Goto(i, "nonblock_ai")
        /\ UNCHANGED <<ai_connected, ai_connecting, ai_pipe_fd>>
        /\ UNCHANGED mainVars

\* line 488: fcntl(ai_pipe_fd, F_SETFL, O_NONBLOCK).
ConnNonblockAi ==
    \E i \in 1..Len(threads) :
        /\ At(i, "nonblock_ai")
        /\ fdTable' = SetNonblock(fdTable, ai_pipe_fd)
        /\ Goto(i, "nonblock_state")
        /\ UNCHANGED <<ai_connected, ai_connecting, ai_pipe_fd, state_pipe_fd>>
        /\ UNCHANGED mainVars

\* line 489: fcntl(state_pipe_fd, F_SETFL, O_NONBLOCK).
ConnNonblockState ==
    \E i \in 1..Len(threads) :
        /\ At(i, "nonblock_state")
        /\ fdTable' = SetNonblock(fdTable, state_pipe_fd)
        /\ Goto(i, "set_connected")
        /\ UNCHANGED <<ai_connected, ai_connecting, ai_pipe_fd, state_pipe_fd>>
        /\ UNCHANGED mainVars

\* line 491: ai_connected = true.
ConnSetConnected ==
    \E i \in 1..Len(threads) :
        /\ At(i, "set_connected")
        /\ ai_connected' = TRUE
        /\ Goto(i, "clear_connecting")
        /\ UNCHANGED <<ai_connecting, ai_pipe_fd, state_pipe_fd, fdTable>>
        /\ UNCHANGED mainVars

\* line 492: ai_connecting = false; the thread returns.
ConnClearConnecting ==
    \E i \in 1..Len(threads) :
        /\ At(i, "clear_connecting")
        /\ ai_connecting' = FALSE
        /\ Goto(i, "done")
        /\ UNCHANGED <<ai_connected, ai_pipe_fd, state_pipe_fd, fdTable>>
        /\ UNCHANGED mainVars

Next ==
    \/ MenuFrame
    \/ GameFrame
    \/ Quit
    \/ ConnOpenAi
    \/ ConnOpenState
    \/ ConnNonblockAi
    \/ ConnNonblockState
    \/ ConnSetConnected
    \/ ConnClearConnecting

Spec == Init /\ [][Next]_vars

(***************************************************************************)
(* The ball alone: a ball at the start position of a course, under one     *)
(* wind, is launched by shootBall and advanced by updateBall ticks.         *)
(***************************************************************************)
\* A colour of the bright-fairway rule of getTerrainProps.
ColBright == [r |-> 100, g |-> 220, b |-> 100]

\* A course without a start marker whose centre cell, where the ball then
\* starts, is water.
CourseB ==
    [width |-> MAP_SIZE, height |-> MAP_SIZE, base |-> ColFairway,
     cells |-> (<<16, 16>> :> ColWater) @@ (<<5, 5>> :> ColHole)]

\* A course with the start marker in the leftmost column, water above it,
\* bright fairway and rough to its right.
CourseC ==
    [width |-> MAP_SIZE, height |-> MAP_SIZE, base |-> ColFairway,
     cells |-> (<<0, 2>> :> ColStart) @@ (<<0, 1>> :> ColWater)
               @@ (<<1, 2>> :> ColBright) @@ (<<2, 2>> :> ColRough)
               @@ (<<3, 2>> :> ColRough) @@ (<<5, 5>> :> ColHole)]

BallMaps == {CourseA, CourseB, CourseC}

\* Launches: direction (thousandths), power (hundredths), loft (tenths of a
\* degree).  The last three are a zero-length aim, a zero power and a
\* negative power.
BallShots ==
    {[dirx |-> 500, diry |-> 866, power |-> 15000, angle |-> 0],
     [dirx |-> -1000, diry |-> 0, power |-> 15000, angle |-> 0],
     [dirx |-> -1000, diry |-> 0, power |-> 15000, angle |-> 450],
     [dirx |-> 1000, diry |-> 0, power |-> 5000, angle |-> 450],
     [dirx |-> 1000, diry |-> 0, power |-> 15000, angle |-> 0],
     [dirx |-> -1000, diry |-> -800, power |-> 6000, angle |-> 0],
     [dirx |-> 0, diry |-> 0, power |-> 15000, angle |-> 450],
     [dirx |-> 1000, diry |-> 0, power |-> 0, angle |-> 0],
     [dirx |-> 1000, diry |-> 0, power |-> 200, angle |-> 0],
     [dirx |-> 500, diry |-> 866, power |-> -5000, angle |-> 0]}

BallWinds ==
    {WindInit,
     [dirX |-> 0, dirY |-> 1000, targetStrength |-> 3000, appliedStrength |-> 3000,
      timer |-> 3000]}

\* A wind at full strength, blowing up the course.
GaleWinds ==
    {[dirX |-> 0, dirY |-> -1000, targetStrength |-> MAX_WIND_STRENGTH,
      appliedStrength |-> MAX_WIND_STRENGTH, timer |-> 3000]}

\* The launches under the gale: a roll up the course and a zero power.
GaleShots ==
    {[dirx |-> 0, diry |-> -1000, power |-> 15000, angle |-> 0],
     [dirx |-> 1000, diry |-> 0, power |-> 0, angle |-> 0]}

\* The state after game initialisation in manual mode on one of the courses
\* maps, under one of the winds, the spin keys pressed or not.
BallStart(maps, winds) ==
    /\ running = TRUE
    /\ currentScreen = "MANUAL"
    /\ gameInitialized = TRUE
    /\ \E mp \in maps, w \in winds, keys \in {{}, {"D", "W"}} :
          /\ startPos = findStartPosition(mp)
          /\ game = [ZeroGame EXCEPT
                        !.mapImage = mp,
                        !.holePos = findHolePosition(mp),
                        !.ball = ManualKeys(initBall(findStartPosition(mp)), keys),
                        !.wind = w]
    /\ currentTurn = "PLAYER"
    /\ playerStrokes = 0
    /\ aiStrokes = 0
    /\ send_counter_demo = 0
    /\ send_counter_vs = 0
    /\ ai_connecting = FALSE
    /\ ai_connected = FALSE
    /\ ai_pipe_fd = -1
    /\ state_pipe_fd = -1
    /\ fdTable = << >>
    /\ threads = << >>
    /\ ev = EvNone
    /\ frames = 0

BallInit == BallStart(BallMaps, BallWinds)

GaleInit == BallStart({CourseA}, GaleWinds)

ballVars == <<running, currentScreen, gameInitialized, startPos, currentTurn,
              playerStrokes, aiStrokes, send_counter_demo, send_counter_vs,
              ai_connecting, ai_connected, ai_pipe_fd, state_pipe_fd, fdTable,
              threads, frames>>

\* shootBall on a ball at rest, with one of the launches in shots.
ShootFrom(shots) ==
    /\ ~game.ball.isMoving
    /\ game.strokes < MaxStrokes
    /\ \E s \in shots :
          /\ game' = [game EXCEPT
                        !.ball = shootBall(game.ball, game.mapImage, s.dirx, s.diry,
                                           s.power, s.angle),
                        !.strokes = @ + 1]
          /\ ev' = [EvNone EXCEPT !.pLaunch = TRUE, !.pShot = s,
                                  !.before = game.ball]
    /\ UNCHANGED ballVars

BallShoot == ShootFrom(BallShots)

\* One updateBall tick.
BallTick ==
    /\ game' = [game EXCEPT !.ball = updateBall(game.ball, game.mapImage, game.wind)]
    /\ ev' = [EvNone EXCEPT !.tick = TRUE, !.before = game.ball]
    /\ UNCHANGED ballVars

BallNext == BallShoot \/ BallTick

SpecBall == BallInit /\ [][BallNext]_vars

\* The ball alone under a gale.  The frame loop calls updateBall in every
\* frame (line 830), so ticks keep coming.
GaleShoot == ShootFrom(GaleShots)

GaleNext == GaleShoot \/ BallTick

SpecGale == GaleInit /\ [][GaleNext]_vars /\ WF_vars(BallTick)

(***************************************************************************)
(* Flights.  The ball alone as in SpecBall, with the history of the shot   *)
(* in progress: ev.from is the position shootBall was called at,           *)
(* ev.fromGround whether the ball was at ground level then, ev.contacts    *)
(* the number of ticks since the launch that entered the landing check     *)
(* (z <= 0 after the integration of lines 239-242), counted up to 2.       *)
(***************************************************************************)
FlightShots ==
    BallShots \cup
    {[dirx |-> -1000, diry |-> 0, power |-> 6000, angle |-> 450],
     [dirx |-> 0, diry |-> -1000, power |-> 6000, angle |-> 450],
     [dirx |-> 0, diry |-> -1000, power |-> 3000, angle |-> 450]}

FlightShoot ==
    /\ ~game.ball.isMoving
    /\ game.strokes < MaxStrokes
    /\ \E s \in FlightShots :
          /\ game' = [game EXCEPT
                        !.ball = shootBall(game.ball, game.mapImage, s.dirx, s.diry,
                                           s.power, s.angle),
                        !.strokes = @ + 1]
          /\ ev' = [EvNone EXCEPT !.pLaunch = TRUE, !.pShot = s,
                                  !.before = game.ball,
                                  !.from = [x |-> game.ball.x, y |-> game.ball.y],
                                  !.fromGround = (game.ball.z <= 0)]
    /\ UNCHANGED ballVars

FlightTick ==
    /\ game' = [game EXCEPT !.ball = updateBall(game.ball, game.mapImage, game.wind)]
    /\ ev' = [EvNone EXCEPT
                !.tick = TRUE, !.before = game.ball,
                !.from = ev.from, !.fromGround = ev.fromGround,
                !.contacts = IF game.ball.isMoving /\ ubIntegrate(game.ball).z <= 0
                                /\ ev.contacts < 2
                             THEN ev.contacts + 1 ELSE ev.contacts]
    /\ UNCHANGED ballVars

FlightNext == FlightShoot \/ FlightTick

SpecFlight == BallInit /\ [][FlightNext]_vars

\* A course with a solid block to the right of the start marker, water
\* above it and sand below it.
CourseD ==
    [width |-> MAP_SIZE, height |-> MAP_SIZE, base |-> ColFairway,
     cells |-> (<<1, 1>> :> ColStart) @@ (<<2, 1>> :> ColSolid)
               @@ (<<1, 0>> :> ColWater) @@ (<<1, 2>> :> ColSand)
               @@ (<<5, 5>> :> ColHole)]

\* The courses whose start is on neither hazard nor solid terrain.
GroundMaps == {CourseA, CourseC, CourseD}

GroundInit == BallStart(GroundMaps, BallWinds)

\* Two commands of the AI client (any direction, power and loft can arrive,
\* lines 459-461): a roll toward the water and a lob at 88 degrees with
\* power 5.38.
EdgeShots ==
    {[dirx |-> -1000, diry |-> 0, power |-> 7976, angle |-> 0],
     [dirx |-> -1000, diry |-> 0, power |-> 538, angle |-> 880]}

GroundShoot == ShootFrom(BallShots \cup EdgeShots)

GroundNext == GroundShoot \/ BallTick

SpecGround == GroundInit /\ [][GroundNext]_vars

(***************************************************************************)
(* The AI demo with the client connected: frames whose only input is what  *)
(* the command pipe delivers, including commands whose power is outside    *)
(* the range of a manual drag.                                             *)
(***************************************************************************)
\* A command with twice the largest drag power, and one with a negative power.
CmdWild ==
    [dirx |-> 500, diry |-> 866, angle |-> 0, power |-> 2 * MAX_DRAG_DISTANCE,
     spinx |-> 0, spiny |-> 0]

CmdBack ==
    [dirx |-> 500, diry |-> 866, angle |-> 0, power |-> -5000, spinx |-> 0, spiny |-> 0]

CmdInputs ==
    {[keys |-> {}, mouse |-> "none", mousePos |-> PressPos,
      pipe |-> p.pipe, cmd |-> p.cmd, writeOk |-> p.writeOk, map |-> CourseA,
      r1 |-> 0, r2 |-> 0, r3 |-> 0] :
        p \in {[pipe |-> "none", cmd |-> CmdHole, writeOk |-> TRUE],
               [pipe |-> "none", cmd |-> CmdHole, writeOk |-> FALSE],
               [pipe |-> "short", cmd |-> CmdHole, writeOk |-> TRUE],
               [pipe |-> "cmd", cmd |-> CmdHole, writeOk |-> TRUE],
               [pipe |-> "cmd", cmd |-> CmdWater, writeOk |-> TRUE],
               [pipe |-> "cmd", cmd |-> CmdWild, writeOk |-> TRUE],
               [pipe |-> "cmd", cmd |-> CmdBack, writeOk |-> TRUE]}}

\* The AI demo after its first frame, the connection thread finished.
CmdInit ==
    /\ running = TRUE
    /\ currentScreen = "AI_DEMO"
    /\ gameInitialized = TRUE
    /\ startPos = findStartPosition(CourseA)
    /\ game = [ZeroGame EXCEPT
                  !.mapImage = CourseA,
                  !.holePos = findHolePosition(CourseA),
                  !.ball = initBall(findStartPosition(CourseA)),
                  !.wind = WindInit]
    /\ currentTurn = "PLAYER"
    /\ playerStrokes = 0
    /\ aiStrokes = 0
    /\ send_counter_demo = 0
    /\ send_counter_vs = 0
    /\ ai_connecting = FALSE
    /\ ai_connected = TRUE
    /\ ai_pipe_fd = 1
    /\ state_pipe_fd = 2
    /\ fdTable = <<[open |-> TRUE, nonblock |-> TRUE], [open |-> TRUE, nonblock |-> TRUE]>>
    /\ threads = <<"done">>
    /\ ev = EvNone
    /\ frames = 1

\* main, lines 587-922: a frame of the AI demo.
CmdFrame ==
    /\ running /\ currentScreen # "MENU"
    /\ frames < MaxFrames
    /\ \E in \in CmdInputs :
          /\ WithinStrokes(in)
          /\ Commit(FrameBody(Main, in))
    /\ UNCHANGED running
    /\ UNCHANGED connVars

SpecCmd == CmdInit /\ [][CmdFrame]_vars

(***************************************************************************)
(* Snapshot publication over many frames.  The AI demo (lines 679-686) and *)
(* versus mode (lines 728-739) each keep a static send_counter that counts *)
(* the frames in which the channel is connected and the reported ball is   *)
(* at rest, and publish on every 60th count.  The session starts right     *)
(* after its first frame with the connection thread finished, the open()   *)
(* of the state pipe (line 484, result unchecked) having succeeded or      *)
(* returned -1; the history fields ev.lastSnap and ev.snapGap carry the    *)
(* frame of the last publication and the distance between the last two,    *)
(* ev.got what the frame's read() had to return.                           *)
(***************************************************************************)
MaxSnapFrames == 125

SnapModes == {"AI_DEMO", "VS"}

SnapInit ==
    /\ running = TRUE
    /\ currentScreen \in SnapModes
    /\ gameInitialized = TRUE
    /\ startPos = findStartPosition(CourseA)
    /\ game = [ZeroGame EXCEPT
                  !.mapImage = CourseA,
                  !.holePos = findHolePosition(CourseA),
                  !.ball = initBall(findStartPosition(CourseA)),
                  !.aiBall = IF currentScreen = "VS"
                             THEN initBall(findStartPosition(CourseA)) ELSE @,
                  !.wind = WindInit]
    /\ currentTurn = "PLAYER"
    /\ playerStrokes = 0
    /\ aiStrokes = 0
    /\ send_counter_demo = 0
    /\ send_counter_vs = 0
    /\ ai_connecting = FALSE
    /\ ai_connected = TRUE
    /\ ai_pipe_fd = 1
    /\ state_pipe_fd \in {2, -1}
    /\ fdTable = IF state_pipe_fd = 2
                 THEN <<[open |-> TRUE, nonblock |-> TRUE],
                        [open |-> TRUE, nonblock |-> TRUE]>>
                 ELSE <<[open |-> TRUE, nonblock |-> TRUE]>>
    /\ threads = <<"done">>
    /\ ev = EvNone
    /\ frames = 1

\* The player drags towards the water or does nothing; a read() returns
\* nothing, part of a record or one whole record, the latter two only as the
\* client's answer to a snapshot, in one of the two frames after its
\* publication; a write() succeeds or fails.
SnapInputs ==
    {[keys |-> {}, mouse |-> u.mouse, mousePos |-> u.mousePos,
      pipe |-> p.pipe, cmd |-> p.cmd, writeOk |-> w, map |-> CourseA,
      r1 |-> 0, r2 |-> 0, r3 |-> 0] :
        u \in {[mouse |-> "none", mousePos |-> PressPos],
               [mouse |-> "pressed", mousePos |-> PressPos],
               [mouse |-> "released", mousePos |-> ReleaseWater]},
        p \in IF ev.lastSnap >= 0 /\ frames - ev.lastSnap <= 1
              THEN {[pipe |-> "none", cmd |-> CmdHole],
                    [pipe |-> "short", cmd |-> CmdHole],
                    [pipe |-> "cmd", cmd |-> CmdHole],
                    [pipe |-> "cmd", cmd |-> CmdWater]}
              ELSE {[pipe |-> "none", cmd |-> CmdHole]},
        w \in BOOLEAN}

\* main, lines 587-922: a frame of the session, with the publication history.
SnapFrame ==
    /\ running /\ currentScreen # "MENU"
    /\ frames < MaxSnapFrames
    /\ \E in \in SnapInputs :
          /\ WithinStrokes(in)
          /\ \E m \in {FrameBody(Main, in)} :
                \E h \in {[m EXCEPT
                              !.ev.lastSnap = IF m.ev.snap.sent
                                              THEN m.frames ELSE ev.lastSnap,
                              !.ev.snapGap = IF m.ev.snap.sent /\ ev.lastSnap >= 0
                                             THEN m.frames - ev.lastSnap ELSE 0,
                              !.ev.got = in.pipe]} :
                   Commit(h)
    /\ UNCHANGED running
    /\ UNCHANGED connVars

SpecSnap == SnapInit /\ [][SnapFrame]_vars

(***************************************************************************)
(* Commands with spin fields.  An AICommand has six floats (lines          *)
(* 459-461): direction, loft, power, spin X and spin Y.  The AI demo and   *)
(* versus mode with the client connected, the commands of the client       *)
(* carrying any of the spin values below; in versus mode the player        *)
(* launches too, so that the turn reaches the AI.  A frame records the     *)
(* whole command it read in ev.aShot.                                      *)
(***************************************************************************)
SpinVals == {0, 250}

SpinCommands ==
    {[c EXCEPT !.spinx = sx, !.spiny = sy] :
        c \in {CmdHole, CmdWater}, sx \in SpinVals, sy \in SpinVals}

SpinInputs ==
    {[keys |-> {}, mouse |-> u.mouse, mousePos |-> u.mousePos,
      pipe |-> p.pipe, cmd |-> p.cmd, writeOk |-> TRUE, map |-> CourseA,
      r1 |-> 0, r2 |-> 0, r3 |-> 0] :
        u \in {[mouse |-> "none", mousePos |-> PressPos],
               [mouse |-> "pressed", mousePos |-> PressPos],
               [mouse |-> "released", mousePos |-> ReleaseWater]},
        p \in {[pipe |-> "none", cmd |-> CmdHole]}
              \cup {[pipe |-> "cmd", cmd |-> c] : c \in SpinCommands}}

\* The AI demo or versus mode after the first frame, the connection thread
\* finished.
SpinInit ==
    /\ running = TRUE
    /\ currentScreen \in {"AI_DEMO", "VS"}
    /\ gameInitialized = TRUE
    /\ startPos = findStartPosition(CourseA)
    /\ game = [ZeroGame EXCEPT
                  !.mapImage = CourseA,
                  !.holePos = findHolePosition(CourseA),
                  !.ball = initBall(findStartPosition(CourseA)),
                  !.aiBall = IF currentScreen = "VS"
                             THEN initBall(findStartPosition(CourseA)) ELSE @,
                  !.wind = WindInit]
    /\ currentTurn = "PLAYER"
    /\ playerStrokes = 0
    /\ aiStrokes = 0
    /\ send_counter_demo = 0
    /\ send_counter_vs = 0
    /\ ai_connecting = FALSE
    /\ ai_connected = TRUE
    /\ ai_pipe_fd = 1
    /\ state_pipe_fd = 2
    /\ fdTable = <<[open |-> TRUE, nonblock |-> TRUE], [open |-> TRUE, nonblock |-> TRUE]>>
    /\ threads = <<"done">>
    /\ ev = EvNone
    /\ frames = 1

\* main, lines 587-922: a frame of the AI demo or of versus mode.
SpinFrame ==
    /\ running /\ currentScreen # "MENU"
    /\ frames < MaxFrames
    /\ \E in \in SpinInputs :
          /\ WithinStrokes(in)
          /\ \E m \in {FrameBody(Main, in)} :
                \E h \in {[m EXCEPT !.ev.aShot = IF m.ev.aLaunch THEN in.cmd ELSE @]} :
                   Commit(h)
    /\ UNCHANGED running
    /\ UNCHANGED connVars

SpecSpin == SpinInit /\ [][SpinFrame]_vars

(***************************************************************************)
(* Two balls under one wind.  In versus mode the physics step (lines       *)
(* 829-835) updates the wind and then calls updateBall on game.ball and on *)
(* game.aiBall with the same map and the same wind.  Launching both balls  *)
(* from the same state with the same arguments makes the two balls two     *)
(* runs of updateBall on identical inputs.                                 *)
(***************************************************************************)
MaxTicks == 640

\* The rand() draws of a wind update.
WindDraws ==
    {[r1 |-> 0, r2 |-> 1000, r3 |-> 0],
     [r1 |-> 250, r2 |-> 500, r3 |-> 1000],
     [r1 |-> 625, r2 |-> 0, r3 |-> 500]}

TwinShots ==
    {[dirx |-> 1000, diry |-> 0, power |-> 5000, angle |-> 450],
     [dirx |-> -1000, diry |-> 0, power |-> 15000, angle |-> 450],
     [dirx |-> 500, diry |-> 866, power |-> 15000, angle |-> 0]}

\* Versus mode after game initialisation, the wind about to pick its first
\* target.
TwinInit ==
    /\ running = TRUE
    /\ currentScreen = "VS"
    /\ gameInitialized = TRUE
    /\ \E mp \in {CourseA, CourseC} :
          /\ startPos = findStartPosition(mp)
          /\ game = [ZeroGame EXCEPT
                        !.mapImage = mp,
                        !.holePos = findHolePosition(mp),
                        !.ball = initBall(findStartPosition(mp)),
                        !.aiBall = initBall(findStartPosition(mp)),
                        !.wind = [WindInit EXCEPT !.timer = 2 * DT]]
    /\ currentTurn = "PLAYER"
    /\ playerStrokes = 0
    /\ aiStrokes = 0
    /\ send_counter_demo = 0
    /\ send_counter_vs = 0
    /\ ai_connecting = FALSE
    /\ ai_connected = FALSE
    /\ ai_pipe_fd = -1
    /\ state_pipe_fd = -1
    /\ fdTable = << >>
    /\ threads = << >>
    /\ ev = EvNone
    /\ frames = 0

twinVars == <<running, currentScreen, gameInitialized, startPos, currentTurn,
              playerStrokes, aiStrokes, send_counter_demo, send_counter_vs,
              ai_connecting, ai_connected, ai_pipe_fd, state_pipe_fd, fdTable,
              threads>>

\* Both balls launched with the same arguments.
TwinShoot ==
    /\ ~game.ball.isMoving /\ ~game.aiBall.isMoving
    /\ game.strokes < MaxStrokes
    /\ \E s \in TwinShots :
          /\ game' = [game EXCEPT
                        !.ball = shootBall(game.ball, game.mapImage, s.dirx, s.diry,
                                           s.power, s.angle),
                        !.aiBall = shootBall(game.aiBall, game.mapImage, s.dirx,
                                             s.diry, s.power, s.angle),
                        !.strokes = @ + 1]
          /\ ev' = [EvNone EXCEPT !.pLaunch = TRUE, !.aLaunch = TRUE,
                                  !.pShot = s, !.aShot = s, !.before = game.ball]
    /\ UNCHANGED <<twinVars, frames>>

\* A physics step that ticks the second ball under the wind of the frame
\* before.
TwinTickStaleWind ==
    /\ game.ball.isMoving \/ game.aiBall.isMoving
    /\ frames < MaxTicks
    /\ \E d \in WindDraws :
          LET w == updateWind(game.wind, d.r1, d.r2, d.r3)
          IN  game' = [game EXCEPT
                         !.wind = w,
                         !.ball = updateBall(game.ball, game.mapImage, w),
                         !.aiBall = updateBall(game.aiBall, game.mapImage, game.wind)]
    /\ ev' = [EvNone EXCEPT !.tick = TRUE, !.before = game.ball]
    /\ frames' = frames + 1
    /\ UNCHANGED twinVars

\* The physics step of a versus frame, lines 829-835.
TwinTick ==
    /\ game.ball.isMoving \/ game.aiBall.isMoving
    /\ frames < MaxTicks
    /\ \E d \in WindDraws :
          LET w == updateWind(game.wind, d.r1, d.r2, d.r3)
          IN  game' = [game EXCEPT
                         !.wind = w,
                         !.ball = updateBall(game.ball, game.mapImage, w),
                         !.aiBall = updateBall(game.aiBall, game.mapImage, w)]
    /\ ev' = [EvNone EXCEPT !.tick = TRUE, !.before = game.ball]
    /\ frames' = frames + 1
    /\ UNCHANGED twinVars

TwinNext == TwinShoot \/ TwinTick

SpecTwin == TwinInit /\ [][TwinNext]_vars

(***************************************************************************)
(* The wind alone: updateWind once per frame (line 829) from the wind of   *)
(* game initialisation, under different draws of rand().                   *)
(***************************************************************************)
WindStart == BallStart({CourseA}, {WindInit})

WindTick ==
    /\ frames < MaxTicks
    /\ \E d \in WindDraws :
          LET w == updateWind(game.wind, d.r1, d.r2, d.r3)
              rose == w.timer > game.wind.timer
          IN  /\ game' = [game EXCEPT !.wind = w]
              /\ ev' = [ev EXCEPT
                           !.wSince = IF rose THEN 0
                                      ELSE IF @ < 0 THEN @ ELSE @ + DT,
                           !.wGap = IF rose /\ ev.wSince >= 0
                                    THEN ev.wSince + DT ELSE @]
    /\ frames' = frames + 1
    /\ UNCHANGED twinVars

SpecWind == WindStart /\ [][WindTick]_vars

(***************************************************************************)
(* Sessions: the player may leave a game with ESC and enter a mode again.  *)
(* Every game initialisation in the AI demo or in versus mode calls        *)
(* setupAIPipes (line 591), which starts another connection thread; the    *)
(* pipe globals and ai_connected keep what the earlier thread left.  The   *)
(* client stays connected, so every open() returns.                        *)
(***************************************************************************)
MaxSessions == 2

SessionInputs ==
    {[keys |-> k, mouse |-> "none", mousePos |-> PressPos,
      pipe |-> p.pipe, cmd |-> p.cmd, writeOk |-> p.writeOk, map |-> CourseA,
      r1 |-> 0, r2 |-> 0, r3 |-> 0] :
        k \in {{}, {"ESC"}},
        p \in IF ai_connected
              THEN {[pipe |-> "none", cmd |-> CmdWater, writeOk |-> TRUE],
                    [pipe |-> "cmd", cmd |-> CmdWater, writeOk |-> TRUE]}
              ELSE {[pipe |-> "none", cmd |-> CmdWater, writeOk |-> TRUE]}}

\* main, lines 569-585: a frame on the menu screen that picks the AI demo.
SessionMenu ==
    /\ running /\ currentScreen = "MENU"
    /\ Len(threads) < MaxSessions
    /\ currentScreen' = "AI_DEMO"
    /\ ev' = EvNone
    /\ UNCHANGED <<running, gameInitialized, game, startPos, currentTurn,
                   playerStrokes, aiStrokes, send_counter_demo, send_counter_vs,
                   ai_connecting, threads, frames>>
    /\ UNCHANGED connVars

\* main, lines 587-922: a frame on a game screen.
SessionFrame ==
    /\ running /\ currentScreen # "MENU"
    /\ frames < MaxFrames
    /\ \E in \in SessionInputs :
          /\ WithinStrokes(in)
          /\ Commit(FrameBody(Main, in))
    /\ UNCHANGED running
    /\ UNCHANGED connVars

SessionNext ==
    \/ SessionMenu
    \/ SessionFrame
    \/ ConnOpenAi
    \/ ConnOpenState
    \/ ConnNonblockAi
    \/ ConnNonblockState
    \/ ConnSetConnected
    \/ ConnClearConnecting

SpecSessions == Init /\ [][SessionNext]_vars

(***************************************************************************)
(* Versus matches: the player may leave a match with ESC and enter versus  *)
(* mode again.  currentTurn, playerStrokes and aiStrokes are locals of     *)
(* main set once, at lines 563-565; game initialisation (lines 588-626)    *)
(* and the reset key (lines 814-827) are the places a match begins.  No    *)
(* AI client is running: each connection thread stays in the open() of     *)
(* line 480, and the player plays alone.                                   *)
(***************************************************************************)
MatchInputs ==
    {[keys |-> u.keys, mouse |-> u.mouse, mousePos |-> u.mousePos,
      pipe |-> "none", cmd |-> CmdWater, writeOk |-> TRUE, map |-> CourseA,
      r1 |-> 0, r2 |-> 0, r3 |-> 0] :
        u \in {[keys |-> {}, mouse |-> "none", mousePos |-> PressPos],
               [keys |-> {}, mouse |-> "pressed", mousePos |-> PressPos],
               [keys |-> {}, mouse |-> "released", mousePos |-> ReleaseWater],
               [keys |-> {"R"}, mouse |-> "none", mousePos |-> PressPos],
               [keys |-> {"ESC"}, mouse |-> "none", mousePos |-> PressPos]}}

\* main, lines 569-585: a frame on the menu screen that picks versus mode.
MatchMenu ==
    /\ running /\ currentScreen = "MENU"
    /\ Len(threads) < MaxSessions
    /\ currentScreen' = "VS"
    /\ ev' = EvNone
    /\ UNCHANGED <<running, gameInitialized, game, startPos, currentTurn,
                   playerStrokes, aiStrokes, send_counter_demo, send_counter_vs,
                   ai_connecting, threads, frames>>
    /\ UNCHANGED connVars

\* main, lines 587-922: a frame on the versus screen.
MatchFrame ==
    /\ running /\ currentScreen # "MENU"
    /\ frames < MaxFrames
    /\ \E in \in MatchInputs :
          /\ WithinStrokes(in)
          /\ Commit(FrameBody(Main, in))
    /\ UNCHANGED running
    /\ UNCHANGED connVars

MatchNext == MatchMenu \/ MatchFrame

SpecMatches == Init /\ [][MatchNext]_vars

(***************************************************************************)
(* Terrain classification alone: a one-pixel course image of any of the    *)
(* colours below, and one getTerrainAt lookup under the ball.  The colour  *)
(* components are the values on both sides of every threshold the rules    *)
(* compare with.                                                           *)
(***************************************************************************)
ColourLevels ==
    {0, 29, 30, 50, 69, 70, 79, 80, 85, 100, 120, 121, 130, 131, 150, 151,
     170, 171, 199, 200, 201, 255}

TerrainMaps ==
    {[width |-> 1, height |-> 1, base |-> [r |-> cr, g |-> cg, b |-> cb],
      cells |-> << >>] : cr \in ColourLevels, cg \in ColourLevels, cb \in ColourLevels}

TerrainStart == BallStart(TerrainMaps, {WindInit})

\* getTerrainAt under the ball (as at lines 202 and 271).
TerrainLookup ==
    /\ ~ev.looked
    /\ ev' = [ev EXCEPT !.looked = TRUE,
                        !.terrain = getTerrainAt(game.mapImage, game.ball.x, game.ball.y)]
    /\ UNCHANGED <<game, frames, twinVars>>

SpecTerrain == TerrainStart /\ [][TerrainLookup]_vars

\* The rules of getTerrainProps in their declared order, 1 hole marker,
\* 2 start marker, 3 water, 4 solid, 5 sand, 6 green, 7 rough: the predicate
\* of each and the properties it assigns.
TerrainRuleHolds(i, c) ==
    CASE i = 1 -> c.r < 30 /\ c.g < 30 /\ c.b < 30
      [] i = 2 -> c.r > 150 /\ c.r > c.g + 40 /\ c.r > c.b + 40
      [] i = 3 -> c.b > 120 /\ c.b > c.g + 20 /\ c.b > c.r + 20
      [] i = 4 -> c.r < 70 /\ c.g < 80 /\ c.b < 70 /\ c.g <= c.r + 20
      [] i = 5 -> c.r > 130 /\ c.g > 130 /\ c.b < 100 /\ Abs(c.r - c.g) < 30
                  /\ c.r + c.g > 260 /\ c.g < 200
      [] i = 6 -> c.g > 200 /\ c.r > 80 /\ c.b < 150 /\ c.g > c.r /\ c.g > c.b
      [] i = 7 -> c.g >= 85 /\ c.g <= 170 /\ c.g > c.r + 8 /\ c.g > c.b + 8
                  /\ c.r <= 120 /\ c.b <= 120

TerrainRuleProps(i) ==
    CASE i \in {1, 2} -> TerrainDefault
      [] i = 3 -> [rollDamping |-> 920, bounceFactor |-> 0, launchFactor |-> 0,
                   isHazard |-> TRUE, isSolid |-> FALSE, isSand |-> FALSE]
      [] i = 4 -> [rollDamping |-> 400, bounceFactor |-> 0, launchFactor |-> 400,
                   isHazard |-> FALSE, isSolid |-> TRUE, isSand |-> FALSE]
      [] i = 5 -> [rollDamping |-> 450, bounceFactor |-> 50, launchFactor |-> 350,
                   isHazard |-> FALSE, isSolid |-> FALSE, isSand |-> TRUE]
      [] i = 6 -> [rollDamping |-> 980, bounceFactor |-> 750, launchFactor |-> 1050,
                   isHazard |-> FALSE, isSolid |-> FALSE, isSand |-> FALSE]
      [] i = 7 -> [rollDamping |-> 800, bounceFactor |-> 550, launchFactor |-> 850,
                   isHazard |-> FALSE, isSolid |-> FALSE, isSand |-> FALSE]

(***************************************************************************)

(* Properties.                                                             *)
(***************************************************************************)
\* A versus match is under way.
InVS == currentScreen = "VS" /\ gameInitialized

\* The ball b is at rest strictly within 15 units of a valid hole position h.
RestsInHole(b, h) ==
    /\ ~b.isMoving
    /\ h.x >= 0
    /\ Abs(b.x - h.x) < 1500 /\ Abs(b.y - h.y) < 1500
    /\ (b.x - h.x) * (b.x - h.x) + (b.y - h.y) * (b.y - h.y) < 1500 * 1500

\* C1: in versus mode at most one of the two balls has isMoving = true.
C1_AtMostOneMoving ==
    InVS => ~(game.ball.isMoving /\ game.aiBall.isMoving)

\* C2: a ball is launched only when it was at rest and its owner's win flag
\* was clear, in versus mode only on its owner's turn; an AI command is read
\* or consumed only with the channel connected and the same conditions
\* holding for the receiving ball.
C2_LaunchPreconditions ==
    /\ ev.pLaunch =>
          /\ ~ev.pPre.moving /\ ~ev.pPre.won
          /\ currentScreen = "VS" => ev.pPre.turn = "PLAYER"
    /\ ev.aLaunch =>
          /\ ev.read
          /\ ~ev.aPre.moving /\ ~ev.aPre.won /\ ev.aPre.connected
          /\ currentScreen = "VS" => ev.aPre.turn = "AI"
    /\ ev.read =>
          /\ ~ev.rPre.moving /\ ~ev.rPre.won /\ ev.rPre.connected
          /\ currentScreen = "VS" => ev.rPre.turn = "AI"

\* C2's case: versus mode, both competitors launched in one frame.
C2_Witness ==
    InVS /\ ev.pLaunch /\ ev.aLaunch /\ ev.read

\* C3 as stated: at the end of a frame of versus mode in which a competitor
\* launched, the turn names the other competitor, unless the other has
\* finished and the launcher has not, when it names the launcher.
C3_TurnAfterLaunch ==
    /\ (InVS /\ ev.pLaunch) =>
          currentTurn = IF game.aiWon /\ ~game.gameWon THEN "PLAYER" ELSE "AI"
    /\ (InVS /\ ev.aLaunch) =>
          currentTurn = IF game.gameWon /\ ~game.aiWon THEN "AI" ELSE "PLAYER"

\* C3, amended: the same at the end of a frame without an R-key reset in
\* which exactly one competitor launched; when both launched in one frame
\* (no reset), the turn names the player.
C3_TurnAfterLaunchNoReset ==
    /\ (InVS /\ ev.pLaunch /\ ~ev.aLaunch /\ ~ev.reset) =>
          currentTurn = IF game.aiWon /\ ~game.gameWon THEN "PLAYER" ELSE "AI"
    /\ (InVS /\ ev.aLaunch /\ ~ev.pLaunch /\ ~ev.reset) =>
          currentTurn = IF game.gameWon /\ ~game.aiWon THEN "AI" ELSE "PLAYER"
    /\ (InVS /\ ev.aLaunch /\ ev.pLaunch /\ ~ev.reset) => currentTurn = "PLAYER"

\* C3's case: the player launched alone after the AI had finished, and keeps
\* the turn.
C3_Witness ==
    InVS /\ ev.pLaunch /\ ~ev.aLaunch /\ ~ev.reset /\ game.aiWon /\ ~game.gameWon
    /\ currentTurn = "PLAYER"

\* C4 as stated: in the frame of versus mode where the player's ball is
\* detected at rest within the win radius, the player's win flag is set and,
\* if the AI has not finished, the turn is the AI's at the end of the frame.
C4_PlayerWinForcesTurn ==
    (InVS /\ ev.pWin) => (game.gameWon /\ (~game.aiWon => currentTurn = "AI"))

\* C4, amended: the same, in a detection frame without an R-key reset.
C4_PlayerWinForcesTurnNoReset ==
    (InVS /\ ev.pWin /\ ~ev.reset) =>
        (game.gameWon /\ (~game.aiWon => currentTurn = "AI"))

\* C4's case: the player launched, the AI launched, then the player's ball
\* settled within the win radius while the AI was still unfinished.
C4_Witness ==
    InVS /\ ev.pWin /\ ~ev.reset /\ playerStrokes >= 1 /\ aiStrokes >= 1
    /\ ~game.aiWon /\ currentTurn = "AI"

\* C5: in versus mode, whenever exactly one win flag is set at the end of a
\* frame, the turn names the competitor whose flag is clear.
C5_TurnNamesUnfinished ==
    /\ (InVS /\ game.gameWon /\ ~game.aiWon) => currentTurn = "AI"
    /\ (InVS /\ game.aiWon /\ ~game.gameWon) => currentTurn = "PLAYER"

\* C5's case: the AI has finished, the player has played on and has the turn.
C5_Witness ==
    InVS /\ game.aiWon /\ ~game.gameWon /\ playerStrokes >= 1 /\ game.ball.isMoving

\* C6: in versus mode the turn is FINISHED if and only if both win flags
\* are set.
C6_FinishedIffBothWon ==
    InVS => ((currentTurn = "FINISHED") <=> (game.gameWon /\ game.aiWon))

\* C7: a win flag that is set stays set from frame to frame, except across an
\* R-key reset or a game initialisation.
C7_WinFlagMonotonic ==
    [][ /\ (game.gameWon /\ ~game'.gameWon) => (ev'.reset \/ ev'.init)
        /\ (game.aiWon /\ ~game'.aiWon) => (ev'.reset \/ ev'.init) ]_vars

\* C7's case: the player's flag was set in an earlier frame and outlives a
\* launch by the AI and the ticks of the AI's moving ball.
C7_Witness ==
    InVS /\ game.gameWon /\ ~ev.pWin /\ ev.aLaunch /\ game.aiBall.isMoving

\* C8: a win flag becomes set only in a frame that ends with that
\* competitor's ball at rest strictly within 15 units of a valid hole; and
\* a win check for a competitor whose flag is already set changes nothing.
C8_WinOnlyAtRestInRadius ==
    /\ [][ /\ (~game.gameWon /\ game'.gameWon) =>
                 RestsInHole(game'.ball, game'.holePos)
           /\ (~game.aiWon /\ game'.aiWon) =>
                 RestsInHole(game'.aiBall, game'.holePos) ]_vars
    /\ [](game.gameWon =>
            (VsPlayerWinCheck(Main) = Main /\ SingleWinCheck(Main) = Main))
    /\ [](game.aiWon => VsAiWinCheck(Main) = Main)

\* C8's case: both flags were set by detections, and both balls still rest
\* within the radius, so that each check is run again.
C8_Witness ==
    /\ InVS /\ game.gameWon /\ game.aiWon /\ playerStrokes >= 1 /\ aiStrokes >= 1
    /\ RestsInHole(game.ball, game.holePos)
    /\ RestsInHole(game.aiBall, game.holePos)

\* C9: an updateBall tick of a ball with isMoving = false changes no field of
\* the ball, whatever the wind and the terrain.
C9_RestingBallUnchanged ==
    (ev.tick /\ ~ev.before.isMoving) => game.ball = ev.before

\* C9's case: a ball that was launched and came to rest, still spinning, is
\* ticked under a blowing wind.
C9_Witness ==
    /\ ev.tick /\ ~ev.before.isMoving /\ game.strokes > 0
    /\ game.wind.appliedStrength > 0 /\ ev.before.spinY # 0

\* The tick of ball b finds it at ground level over a hazard cell (lines 271-280).
HazardTick(b, map) ==
    /\ b.isMoving
    /\ ubIntegrate(b).z <= 0
    /\ getTerrainAt(map, ubIntegrate(b).x, ubIntegrate(b).y).isHazard

\* C10: a tick that finds a moving ball at ground level over a hazard cell
\* puts the ball at its last ground position with zero velocity, inAir and
\* isMoving false, and leaves the last ground position as it was.
C10_HazardReverts ==
    (ev.tick /\ HazardTick(ev.before, game.mapImage)) =>
        /\ game.ball.x = ev.before.lastX /\ game.ball.y = ev.before.lastY
        /\ game.ball.vx = 0 /\ game.ball.vy = 0 /\ game.ball.vz = 0
        /\ ~game.ball.inAir /\ ~game.ball.isMoving
        /\ game.ball.lastX = ev.before.lastX /\ game.ball.lastY = ev.before.lastY

\* C10's case: a ball on its second shot, launched from a ground position
\* other than the start, comes down on water.
C10_Witness ==
    /\ ev.tick /\ HazardTick(ev.before, game.mapImage)
    /\ (ev.before.lastX # startPos.x \/ ev.before.lastY # startPos.y)
    /\ (ev.before.x # ev.before.lastX \/ ev.before.y # ev.before.lastY)

\* C12: in every state each ball's x lies in [0, SCREEN_WIDTH - 1] and its y
\* in [0, SCREEN_HEIGHT - 1].
C12_BallOnCourse ==
    \A b \in {game.ball, game.aiBall} :
        /\ 0 <= b.x /\ b.x <= SCREEN_WIDTH - 100
        /\ 0 <= b.y /\ b.y <= SCREEN_HEIGHT - 100

\* C13: in every state each ball's height z is at least 0.
C13_HeightNonNegative ==
    game.ball.z >= 0 /\ game.aiBall.z >= 0

\* C13's case: a tick whose integration took the ball below the ground.
C13_Witness ==
    ev.tick /\ ev.before.isMoving /\ ubIntegrate(ev.before).z < 0 /\ game.ball.z = 0

\* C11: after any launch the ball reaches isMoving = false within finitely
\* many ticks, whatever the terrain and the wind within its range.
C11_BallComesToRest ==
    [](game.ball.isMoving => <>(~game.ball.isMoving))

\* The ball of the last tick as it meets the landing check (position, height
\* and vertical velocity after the integration of lines 239-242), and the
\* terrain under it (line 271).
AtContact == ubIntegrate(ev.before)

ContactTerrain == getTerrainAt(game.mapImage, AtContact.x, AtContact.y)

\* The last step was a ground-contact tick over normal terrain.
NormalContactTick ==
    /\ ev.tick /\ ev.before.isMoving
    /\ AtContact.z <= 0
    /\ ~ContactTerrain.isHazard /\ ~ContactTerrain.isSand /\ ~ContactTerrain.isSolid

\* C14: on a ground-contact tick over terrain that is neither hazard, sand
\* nor solid, with bounce factor f > 0.01 and downward speed v > 10, the
\* vertical velocity after the tick is f*v upward and inAir holds exactly if
\* f*v > 4; otherwise the ball settles with vz = 0 and inAir false.
C14_BounceOrSettle ==
    NormalContactTick =>
        LET f == ContactTerrain.bounceFactor
            v == -AtContact.vz
        IN  IF f > 10 /\ v > 1000
            THEN /\ game.ball.vz = Scale(v, f)
                 /\ (game.ball.inAir <=> Scale(v, f) > 400)
            ELSE game.ball.vz = 0 /\ ~game.ball.inAir

C14_Witness ==
    /\ NormalContactTick
    /\ ContactTerrain.bounceFactor = 750
    /\ -AtContact.vz > 1000
    /\ game.ball.inAir


LaunchTerrain == getTerrainAt(game.mapImage, ev.before.x, ev.before.y)

LaunchAim ==
    LET len == Hypot(ev.pShot.dirx, ev.pShot.diry)
    IN  IF len < 1 THEN [x |-> 0, y |-> -1000]
        ELSE [x |-> Div(ev.pShot.dirx * 1000, len),
              y |-> Div(ev.pShot.diry * 1000, len)]

LaunchBase ==
    LET b == Scale(ev.pShot.power * LAUNCH_SCALE, LaunchTerrain.launchFactor)
    IN  IF LaunchTerrain.isSand THEN Scale(b, 450) ELSE b

\* C16: after every launch isMoving is true whatever the power, angle and
\* terrain, inAir is true exactly if the launch vertical speed exceeds 1.0,
\* and the explicit-spin flag is false.
C16_LaunchFlags ==
    ev.pLaunch =>
        /\ game.ball.isMoving
        /\ (game.ball.inAir <=> game.ball.vz > 100)
        /\ ~game.ball.userSetSpin

C16_Witness ==
    /\ ev.pLaunch /\ ev.before.userSetSpin
    /\ game.ball.inAir /\ game.ball.vz > 100
    /\ ~game.ball.userSetSpin

\* C17: a launch from a cell with launch factor L has baseLaunch = power *
\* LAUNCH_SCALE * L (times 0.45 on sand), horizontal velocity baseLaunch *
\* cos(angle) along the normalised aim, and vz = baseLaunch * sin(angle) *
\* Z_SCALE; from a cell with launch factor 0 the velocity is zero.
C17_LaunchVelocity ==
    ev.pLaunch =>
        LET h == Scale(LaunchBase, CosT(ev.pShot.angle))
        IN  /\ game.ball.vx = Scale(h, LaunchAim.x)
            /\ game.ball.vy = Scale(h, LaunchAim.y)
            /\ game.ball.vz = Scale(Scale(LaunchBase, SinT(ev.pShot.angle)), Z_SCALE)
            /\ (LaunchTerrain.launchFactor = 0 =>
                    game.ball.vx = 0 /\ game.ball.vy = 0 /\ game.ball.vz = 0)

C17_Witness ==
    /\ ev.pLaunch /\ LaunchTerrain.isSand
    /\ ev.pShot.power > 0
    /\ game.ball.vx # 0

C19_PowerInRange ==
    /\ ev.pLaunch => (0 <= ev.pShot.power /\ ev.pShot.power <= MAX_DRAG_DISTANCE)
    /\ ev.aLaunch => (0 <= ev.aShot.power /\ ev.aShot.power <= MAX_DRAG_DISTANCE)


\* C20: in every reachable state the wind's appliedStrength and its
\* targetStrength lie in [0, MAX_WIND_STRENGTH].
C20_WindStrengthInRange ==
    /\ 0 <= game.wind.appliedStrength
    /\ game.wind.appliedStrength <= MAX_WIND_STRENGTH
    /\ 0 <= game.wind.targetStrength
    /\ game.wind.targetStrength <= MAX_WIND_STRENGTH

\* The wind has picked the largest target and has nearly reached it.
C20_Witness ==
    /\ game.wind.targetStrength = MAX_WIND_STRENGTH
    /\ game.wind.appliedStrength > MAX_WIND_STRENGTH - 10
    /\ game.wind.timer < 3000

\* The wind update of this step re-randomises (line 154: the timer, less the
\* step, is at or below zero).
WindFires == game.wind.timer - DT <= 0

\* C21: on every updateWind tick appliedStrength moves toward targetStrength
\* without overshooting: on a tick with no re-randomisation the distance
\* |targetStrength - appliedStrength| does not increase and appliedStrength
\* stays on the same side of targetStrength; on every tick it ends between
\* where it was and the target of that tick.
C21_WindApproachesTarget ==
    [][LET a  == game.wind.appliedStrength
           t  == game.wind.targetStrength
           a2 == game.wind'.appliedStrength
           t2 == game.wind'.targetStrength
       IN  /\ ~WindFires =>
                 /\ t2 = t
                 /\ Abs(t - a2) <= Abs(t - a)
                 /\ (a <= t => a2 <= t)
                 /\ (a >= t => a2 >= t)
           /\ (a <= t2 => (a <= a2 /\ a2 <= t2))
           /\ (a >= t2 => (a >= a2 /\ a2 >= t2))]_vars

\* The wind part of the way up to a target picked some ticks ago.
C21_Witness ==
    /\ game.wind.targetStrength = 2500
    /\ game.wind.appliedStrength > 1000
    /\ game.wind.appliedStrength < 2500
    /\ game.wind.timer < 6000 - 2 * DT

C23_FirstRuleWins ==
    ev.looked =>
        LET c == game.mapImage.base
            hits == {i \in 1..7 : TerrainRuleHolds(i, c)}
            first == CHOOSE i \in hits : \A j \in hits : i <= j
        IN  /\ ev.terrain \in [rollDamping : 0..1000, bounceFactor : 0..1000,
                               launchFactor : 0..1050, isHazard : BOOLEAN,
                               isSolid : BOOLEAN, isSand : BOOLEAN]
            /\ hits = {} => ev.terrain = TerrainDefault
            /\ hits # {} => ev.terrain = TerrainRuleProps(first)
            /\ (IsHoleColor(c) \/ IsStartColor(c)) =>
                  /\ ev.terrain = TerrainDefault
                  /\ ~ev.terrain.isHazard /\ ~ev.terrain.isSolid /\ ~ev.terrain.isSand

\* A hole-marker colour that also satisfies the solid rule.
C23_Witness ==
    /\ ev.looked
    /\ TerrainRuleHolds(1, game.mapImage.base)
    /\ TerrainRuleHolds(4, game.mapImage.base)
    /\ ev.terrain = TerrainDefault

\* C24: whenever the frame loop reads from or writes to the channel, both
\* pipe descriptors are open and in non-blocking mode.
C24_ChannelNonBlocking ==
    (ev.read \/ ev.snap.sent) =>
        /\ ai_pipe_fd >= 0 /\ state_pipe_fd >= 0
        /\ fdTable[ai_pipe_fd].open /\ fdTable[ai_pipe_fd].nonblock
        /\ fdTable[state_pipe_fd].open /\ fdTable[state_pipe_fd].nonblock

\* C25: two snapshot publications of one mode are at least 60 frames apart,
\* and a frame that publishes has the channel connected and reports a ball
\* at rest.
C25_SnapshotRate ==
    /\ ev.snapGap # 0 => ev.snapGap >= 60
    /\ ev.snap.sent => (ai_connected /\ ev.snap.stopped)

\* A second publication, delayed beyond 60 frames by a ball in motion.
C25_Witness == ev.snap.sent /\ ev.snapGap > 60

\* The send_counter of the session's mode (lines 680 and 729).
SnapCounter == IF currentScreen = "VS" THEN send_counter_vs ELSE send_counter_demo

\* The match state: balls, stroke counters, win flags, turn indicator.
MatchState(g, turn, ps, as) ==
    [ball |-> g.ball, aiBall |-> g.aiBall, strokes |-> g.strokes,
     gameWon |-> g.gameWon, aiWon |-> g.aiWon,
     turn |-> turn, playerStrokes |-> ps, aiStrokes |-> as]

C27_NoLaunchFromHole ==
    [][LET atLaunch(b) == IF ev'.init THEN initBall(startPos') ELSE b
       IN  /\ ev'.pLaunch => ~RestsInHole(atLaunch(game.ball), game'.holePos)
           /\ ev'.aLaunch =>
                 ~RestsInHole(atLaunch(IF currentScreen = "VS"
                                       THEN game.aiBall ELSE game.ball),
                              game'.holePos)]_vars

\* The AI's ball rests in the hole, its flag set in an earlier frame, while
\* the AI is connected and has the turn.
C27_Witness ==
    /\ InVS
    /\ RestsInHole(game.aiBall, game.holePos)
    /\ game.aiWon /\ ~ev.aWin
    /\ currentTurn = "AI" /\ ai_connected

\* C28: in versus mode the R key zeroes both stroke counters and gives the
\* turn to the player, and while neither win flag is set the player's counter
\* equals the AI's or exceeds it by one, the turn being the AI's exactly when
\* it exceeds it.
C28_StrictAlternation ==
    InVS =>
       /\ ev.reset => (playerStrokes = 0 /\ aiStrokes = 0 /\ currentTurn = "PLAYER")
       /\ (~game.gameWon /\ ~game.aiWon) =>
             /\ playerStrokes - aiStrokes \in {0, 1}
             /\ (currentTurn = "AI") <=> (playerStrokes = aiStrokes + 1)

\* The second round: the player has launched twice, the AI once.
C28_Witness ==
    /\ InVS /\ ~game.gameWon /\ ~game.aiWon
    /\ playerStrokes = 2 /\ aiStrokes = 1 /\ currentTurn = "AI"

\* The last step was the first tick since the launch to enter the landing
\* check, and the terrain there is a hazard.
FirstContactOnHazard ==
    /\ ev.tick /\ ev.before.isMoving
    /\ ev.contacts = 1 /\ AtContact.z <= 0
    /\ ContactTerrain.isHazard

\* C29: a launch from ground level records the launch position as the last
\* ground position, and a shot whose first ground contact is on a hazard
\* ends that tick at rest exactly where it was launched from.
C29_HazardReturnsToLaunch ==
    /\ (ev.pLaunch /\ ev.fromGround) =>
          (game.ball.lastX = ev.from.x /\ game.ball.lastY = ev.from.y)
    /\ (FirstContactOnHazard /\ ev.fromGround) =>
          /\ game.ball.x = ev.from.x /\ game.ball.y = ev.from.y
          /\ game.ball.z = 0
          /\ ~game.ball.isMoving

\* A lofted shot came down on a hazard away from where it was launched.
C29_Witness ==
    /\ FirstContactOnHazard /\ ev.fromGround
    /\ ev.before.z > 0
    /\ (AtContact.x # ev.from.x \/ AtContact.y # ev.from.y)
    /\ ~getTerrainAt(game.mapImage, ev.from.x, ev.from.y).isHazard

\* The horizontal velocity entering the landing check of the last tick (after
\* the wind and Magnus terms of lines 246-259).
AtLanding == ubWindMagnus(AtContact, game.wind, ubAirborne(AtContact))

\* The last tick's landing check bounced the ball (line 305), and left it in
\* the air (line 307).
TickBounced == ContactTerrain.bounceFactor > 10 /\ AtContact.vz < -1000

TickBouncedUp == TickBounced /\ Scale(-AtContact.vz, ContactTerrain.bounceFactor) > 400

\* v after one multiplication by the contact cell's rollDamping, and after
\* the air drag of lines 318-321.
RollDamped(v) == Scale(v, ContactTerrain.rollDamping)

AirDragged(v) == v - Div(Scale(v, AIR_DRAG_COEF) * DT, 1000)

\* C30: on a ground-contact tick over normal terrain the horizontal velocity
\* is multiplied by the cell's rollDamping twice when the landing check
\* leaves inAir false (with the air drag in between if the ball came down
\* from the air without bouncing), and once when the ball bounces back into
\* the air; a ball the tick then stops has zero velocity.
C30_RollDampingCount ==
    NormalContactTick =>
       LET v == AtLanding
           mid(x) == IF ubAirborne(AtContact) /\ ~TickBounced
                     THEN AirDragged(RollDamped(x)) ELSE RollDamped(x)
           out(x) == IF TickBouncedUp THEN RollDamped(x) ELSE RollDamped(mid(x))
       IN  /\ game.ball.inAir = TickBouncedUp
           /\ IF game.ball.isMoving
              THEN game.ball.vx = out(v.vx) /\ game.ball.vy = out(v.vy)
              ELSE game.ball.vx = 0 /\ game.ball.vy = 0

\* A rolling tick after which the ball still moves, its speed damped twice.
C30_Witness ==
    /\ NormalContactTick /\ ~TickBouncedUp /\ game.ball.isMoving
    /\ RollDamped(RollDamped(AtLanding.vx)) # RollDamped(AtLanding.vx)
    /\ game.ball.vx = RollDamped(RollDamped(AtLanding.vx))

\* The last step was a tick of a ball rolling on normal terrain: moving, at
\* ground level with no vertical velocity and inAir false, the terrain under
\* it before the tick and at the landing check neither hazard, sand nor solid.
RollingTick ==
    /\ NormalContactTick
    /\ ev.before.z = 0 /\ ev.before.vz = 0 /\ ~ev.before.inAir
    /\ LET t == getTerrainAt(game.mapImage, ev.before.x, ev.before.y)
       IN  ~t.isHazard /\ ~t.isSand /\ ~t.isSolid

\* C31: a tick of a ball rolling on normal terrain leaves vz = 0 and inAir
\* false.
C31_RollingStaysGrounded ==
    RollingTick => (game.ball.vz = 0 /\ ~game.ball.inAir)

\* C32: a ball with isMoving false has no velocity, is not in the air and is
\* at most 0.05 above the ground.
C32_RestingBallIsStill ==
    ~game.ball.isMoving =>
       /\ game.ball.vx = 0 /\ game.ball.vy = 0 /\ game.ball.vz = 0
       /\ ~game.ball.inAir
       /\ game.ball.z <= 5000

\* A tick over normal terrain stopped a ball that was still in the air when
\* the tick began.
C32_Witness ==
    /\ NormalContactTick /\ ~game.ball.isMoving
    /\ ev.before.inAir

\* The terrain at a point can be launched from: neither hazard nor solid.
Launchable(x, y) ==
    LET t == getTerrainAt(game.mapImage, x, y)
    IN  ~t.isHazard /\ ~t.isSolid

\* C33: on a course whose start is on neither hazard nor solid terrain, the
\* last ground position is never on a hazard or solid cell, and a ball at
\* rest (after a reversion or any other stop) is on neither.
C33_LastGroundLaunchable ==
    Launchable(startPos.x, startPos.y) =>
       /\ Launchable(game.ball.lastX, game.ball.lastY)
       /\ ~game.ball.isMoving => Launchable(game.ball.x, game.ball.y)

\* C34: once a competitor's win flag is set, a frame that is neither a reset nor
\* an initialisation leaves that competitor's ball (every field of it) and
\* stroke counter as they were, and launches no ball of that competitor.  The
\* player's counter is playerStrokes in versus mode and game.strokes in the
\* other modes (lines 664-674); the AI's is aiStrokes in versus mode and
\* game.strokes in the AI demo (lines 689-697, 744-749).
C34_FinishedCompetitorFrozen ==
    [][(~ev'.reset /\ ~ev'.init) =>
          /\ game.gameWon =>
                /\ game'.ball = game.ball
                /\ game'.strokes = game.strokes
                /\ playerStrokes' = playerStrokes
                /\ ~ev'.pLaunch
                /\ (currentScreen = "AI_DEMO" => ~ev'.aLaunch)
          /\ game.aiWon =>
                /\ game'.aiBall = game.aiBall
                /\ aiStrokes' = aiStrokes
                /\ ~ev'.aLaunch]_vars

\* The player finished in an earlier frame and the AI launches in this one.
C34_Witness ==
    /\ currentScreen = "VS" /\ game.gameWon /\ ~ev.pWin /\ ev.aLaunch
    /\ ~ev.reset /\ ~ev.init

\* 1 for a launch, 0 for none.
Launches(b) == IF b THEN 1 ELSE 0

\* C35: in a frame (a step that advances the frame count) that neither resets
\* nor initialises the match, each
\* competitor's stroke counter grows by one if that competitor's ball is
\* launched in the frame and stays as it is otherwise (whatever else the frame
\* does: hazard reversion, stopping, win detection, a turn change).  The
\* counters are playerStrokes and aiStrokes in versus mode and game.strokes in
\* the manual mode (the player's) and the AI demo (the AI's).
C35_CounterCountsLaunches ==
    [][(frames' # frames /\ currentScreen' # "MENU" /\ ~ev'.reset /\ ~ev'.init) =>
          /\ currentScreen' = "VS" =>
                /\ playerStrokes' = playerStrokes + Launches(ev'.pLaunch)
                /\ aiStrokes' = aiStrokes + Launches(ev'.aLaunch)
          /\ currentScreen' = "MANUAL" =>
                game'.strokes = game.strokes + Launches(ev'.pLaunch)
          /\ currentScreen' = "AI_DEMO" =>
                game'.strokes = game.strokes + Launches(ev'.aLaunch)]_vars

\* Both competitors have launched once and the player's win is detected in
\* this frame, with no launch in it.
C35_Witness ==
    /\ currentScreen = "VS" /\ playerStrokes = 1 /\ aiStrokes = 1
    /\ ev.pWin /\ ~ev.pLaunch /\ ~ev.aLaunch /\ ~ev.reset /\ ~ev.init

\* C36: at the end of a frame of versus mode that began a match (a game
\* initialisation, or a reset by the R key) both stroke counters are 0, both win
\* flags are clear, both balls rest at the start position and it is the
\* player's turn.
C36_MatchBeginsClean ==
    (currentScreen = "VS" /\ (ev.init \/ ev.reset)) =>
       /\ playerStrokes = 0 /\ aiStrokes = 0
       /\ ~game.gameWon /\ ~game.aiWon
       /\ game.ball = initBall(startPos) /\ game.aiBall = initBall(startPos)
       /\ currentTurn = "PLAYER"

\* C37: a snapshot published in a frame of versus mode carries the position
\* and rest flag of the AI ball and the AI's stroke count, as they are when the
\* frame publishes it (nothing before the publication in a frame changes the
\* AI ball or aiStrokes, so these are the values the frame began with).
C37_SnapshotStrokesAreTheAIs ==
    [][(currentScreen = "VS" /\ frames' # frames /\ ~ev'.init /\ ev'.snap.sent) =>
          /\ ev'.snap.x = game.aiBall.x
          /\ ev'.snap.y = game.aiBall.y
          /\ ev'.snap.stopped = ~game.aiBall.isMoving
          /\ ev'.snap.strokes = aiStrokes]_vars

\* C38: from every state of the AI demo and of versus mode, a frame that reads
\* a command gives the same result (balls, counters, turn, everything a frame
\* writes) as the frame that reads the same command with spin X and spin Y
\* zero; so two commands that differ only in their spin fields give the same
\* state after the launch, and, the states being the same, after every later
\* tick.
C38_SpinFieldsIgnored ==
    \A in \in SpinInputs :
       FrameBody(Main, in)
          = FrameBody(Main, [in EXCEPT !.cmd.spinx = 0, !.cmd.spiny = 0])

\* A command with both spin fields set has launched a ball.
C38_Witness ==
    /\ ev.aLaunch /\ ev.aShot.spinx # 0 /\ ev.aShot.spiny # 0
    /\ game.ball.isMoving \/ game.aiBall.isMoving

\* The connection threads that have not returned yet.
Bootstrapping(ts) == {i \in 1..Len(ts) : ts[i] # "done"}

\* C39: at most one connection thread is running at any time, and a step that
\* starts one (setupAIPipes) is taken only when no earlier thread is still
\* running and the channel is not connected.
C39_SingleBootstrap ==
    [][/\ Cardinality(Bootstrapping(threads')) <= 1
       /\ Len(threads') > Len(threads) =>
             (Bootstrapping(threads) = {} /\ ~ai_connected)]_vars

=============================================================================
